---- MODULE Spec2Model ----
(***************************************************************************)
(* A model of the geometry-to-toolpath pipeline of RustCAM (webCAM):       *)
(* polyline offset, the contour / pocket / perimeter strategies, the       *)
(* zig-zag surface strategy and the mesh slicer.                           *)
(*                                                                         *)
(* Numbers.  The program computes in f64.  The model computes on a grid:   *)
(* every length is an integer number of grid units, one unit being         *)
(* 0.01 mm.  Products and sums are exact; a quotient is truncated toward   *)
(* zero (Quot) and a square root is the integer square root (isqrt).  A    *)
(* tolerance of the program that is smaller than one grid unit (1e-10,     *)
(* 1e-6, 0.001) is, for grid values, the same test as "the two values are  *)
(* equal": |a - b| < 0.001 holds of two grid values exactly when a = b.    *)
(***************************************************************************)
EXTENDS Integers, Sequences, FiniteSets, TLC

VARIABLES
    contours,        \* input of a 2-D strategy: a sequence of Polyline
    mesh,            \* input of the surface strategy and the slicer: a Mesh
    params,          \* CutParams
    scan_direction,  \* SurfaceParams.scan_direction
    strategy,        \* the operation that produced `toolpaths` ("none" before any)
    toolpaths,       \* the Vec<Toolpath> the operation returned
    layer_height,    \* input of slice_mesh
    layers,          \* the Vec<(f64, Vec<Polyline>)> slice_mesh returned
    chains,          \* per layer, the chains of chain_segments before the closing test
    slice_pc,        \* where slice_mesh is: "idle", "loop" (at the while test), "done"
    slice_z,         \* the variable z of the loop of slice_mesh
    config,          \* the CamConfig of a pipeline run
    entry,           \* the entry point of lib.rs that runs
    pc,              \* where the entry point is
    depth_z,         \* the variable z of the depth loop of the 2-D pipelines
    depth_cut,       \* the cut_z of the latest strategy call of the depth loop (an Option)
    output,          \* what the entry point returns: G-code lines or move lists
    tick,            \* the parity of the number of loop iterations run so far
    layer_idx,       \* the index of the loop over the layers in the 3-D pipelines
    ret,             \* where the entry point continues after the strategy call
    args,            \* the arguments of the call in progress
    result           \* what a call of a pure function returned (<<>> before it)

vars == <<contours, mesh, params, scan_direction, strategy, toolpaths,
          layer_height, layers, chains, slice_pc, slice_z,
          config, entry, pc, depth_z, depth_cut, output, tick, layer_idx, ret,
          args, result>>

sliceVars == <<layer_height, layers, chains, slice_pc, slice_z>>

strategyVars == <<contours, params, scan_direction, strategy, toolpaths>>

facadeVars == <<config, entry, pc, depth_z, depth_cut, output, tick, layer_idx, ret>>

\* the variables of a pipeline run that slice_mesh leaves alone
callerVars == <<config, entry, pc, depth_z, depth_cut, output, layer_idx, ret>>

pureVars == <<args, result>>

---------------------------------------------------------------------------
(* Arithmetic on the grid *)

Abs(a) == IF a < 0 THEN -a ELSE a

Max(a, b) == IF a >= b THEN a ELSE b

Min(a, b) == IF a <= b THEN a ELSE b

\* a / b truncated toward zero (b # 0)
Quot(a, b) ==
    IF (a >= 0) = (b > 0) THEN Abs(a) \div Abs(b) ELSE -(Abs(a) \div Abs(b))

\* the least integer >= a / b, for b > 0
CeilDiv(a, b) == -((-a) \div b)

\* floor of the square root of n, for 0 <= n < 8192 * 8192: first the block of
\* 64 roots that holds it, then the root within the block
isqrt(n) ==
    LET hi == CHOOSE h \in 0..127 :
                  (64 * h) * (64 * h) <= n /\ n < (64 * h + 64) * (64 * h + 64)
    IN  CHOOSE r \in (64 * hi)..(64 * hi + 63) : r * r <= n /\ n < (r + 1) * (r + 1)

---------------------------------------------------------------------------
(* geometry.rs *)

Vec2(x, y) == [x |-> x, y |-> y]

Vec3(x, y, z) == [x |-> x, y |-> y, z |-> z]

Polyline(points, closed) == [points |-> points, closed |-> closed]

\* Vec2::dist squared: dist(a, b) < t is Dist2(a, b) < t * t
Dist2(a, b) == (a.x - b.x) * (a.x - b.x) + (a.y - b.y) * (a.y - b.y)

SeqRange(s) == {s[i] : i \in 1..Len(s)}

SetMin(S) == CHOOSE m \in S : \A e \in S : m <= e

SetMax(S) == CHOOSE m \in S : \A e \in S : m >= e

\* BoundingBox2::from_points, for a non-empty point sequence
BoundingBox2(pts) ==
    [min |-> Vec2(SetMin({pts[i].x : i \in 1..Len(pts)}),
                  SetMin({pts[i].y : i \in 1..Len(pts)})),
     max |-> Vec2(SetMax({pts[i].x : i \in 1..Len(pts)}),
                  SetMax({pts[i].y : i \in 1..Len(pts)}))]

\* Toolpath::rapid and Toolpath::cut push one ToolpathMove
Rapid(x, y, z) == [x |-> x, y |-> y, z |-> z, rapid |-> TRUE]

Cut(x, y, z) == [x |-> x, y |-> y, z |-> z, rapid |-> FALSE]

Reverse(s) == [i \in 1..Len(s) |-> s[Len(s) + 1 - i]]

---------------------------------------------------------------------------
(* toolpath.rs: offset_polyline *)

\* the mutant of OffsetVertex that takes the right-hand normal
OffsetVertexRight(poly, dist, i) ==
    LET pts  == poly.points
        n    == Len(pts)
        prev == IF i = 1 THEN (IF poly.closed THEN pts[n] ELSE pts[1]) ELSE pts[i - 1]
        next == IF i = n THEN (IF poly.closed THEN pts[1] ELSE pts[n]) ELSE pts[i + 1]
        nx   == (pts[i].y - prev.y) + (next.y - pts[i].y)
        ny   == -((pts[i].x - prev.x) + (next.x - pts[i].x))
        len  == isqrt(nx * nx + ny * ny)
    IN  IF len = 0 THEN pts[i]
        ELSE Vec2(pts[i].x + Quot(dist * nx, len), pts[i].y + Quot(dist * ny, len))

\* one iteration of the loop of offset_polyline: vertex i (1-based) displaced
\* by dist along the normalised sum of the normals of its two edges
OffsetVertex(poly, dist, i) ==
    LET pts  == poly.points
        n    == Len(pts)
        prev == IF i = 1 THEN (IF poly.closed THEN pts[n] ELSE pts[1]) ELSE pts[i - 1]
        next == IF i = n THEN (IF poly.closed THEN pts[1] ELSE pts[n]) ELSE pts[i + 1]
        dx1  == pts[i].x - prev.x
        dy1  == pts[i].y - prev.y
        dx2  == next.x - pts[i].x
        dy2  == next.y - pts[i].y
        nx   == -(dy1 + dy2)
        ny   == dx1 + dx2
        len  == isqrt(nx * nx + ny * ny)
    IN  IF len = 0 THEN pts[i]
        ELSE Vec2(pts[i].x + Quot(dist * nx, len), pts[i].y + Quot(dist * ny, len))

offset_polyline(poly, dist) ==
    IF Len(poly.points) < 2 THEN poly.points
    ELSE [i \in 1..Len(poly.points) |-> OffsetVertex(poly, dist, i)]

---------------------------------------------------------------------------
(* toolpath.rs: the moves both the contour and the perimeter strategy emit *)
(* for one offset point sequence: entry rapid, plunge, follow, close,      *)
(* retract                                                                 *)

\* the mutant of FollowMoves that forgets the entry rapid
FollowMovesNoEntry(offset_pts, closed, p) ==
    LET n == Len(offset_pts)
    IN  [i \in 1..n |-> Cut(offset_pts[i].x, offset_pts[i].y, p.cut_z)]
        \o (IF closed THEN <<Cut(offset_pts[1].x, offset_pts[1].y, p.cut_z)>> ELSE <<>>)
        \o <<Rapid(offset_pts[n].x, offset_pts[n].y, p.safe_z)>>

\* the mutant of FollowMoves that closes every contour, open or closed
FollowMovesAlwaysClose(offset_pts, closed, p) ==
    LET n == Len(offset_pts)
    IN  <<Rapid(offset_pts[1].x, offset_pts[1].y, p.safe_z)>>
        \o [i \in 1..n |-> Cut(offset_pts[i].x, offset_pts[i].y, p.cut_z)]
        \o <<Cut(offset_pts[1].x, offset_pts[1].y, p.cut_z)>>
        \o <<Rapid(offset_pts[n].x, offset_pts[n].y, p.safe_z)>>

\* the mutant of FollowMoves that ends at cutting depth, without the retract
FollowMovesNoRetract(offset_pts, closed, p) ==
    LET n == Len(offset_pts)
    IN  <<Rapid(offset_pts[1].x, offset_pts[1].y, p.safe_z)>>
        \o [i \in 1..n |-> Cut(offset_pts[i].x, offset_pts[i].y, p.cut_z)]
        \o (IF closed THEN <<Cut(offset_pts[1].x, offset_pts[1].y, p.cut_z)>> ELSE <<>>)

FollowMoves(offset_pts, closed, p) ==
    LET n == Len(offset_pts)
    IN  <<Rapid(offset_pts[1].x, offset_pts[1].y, p.safe_z)>>
        \o [i \in 1..n |-> Cut(offset_pts[i].x, offset_pts[i].y, p.cut_z)]
        \o (IF closed THEN <<Cut(offset_pts[1].x, offset_pts[1].y, p.cut_z)>> ELSE <<>>)
        \o <<Rapid(offset_pts[n].x, offset_pts[n].y, p.safe_z)>>

(* toolpath.rs: ContourStrategy *)

RECURSIVE ContourStrategy_generate(_, _)
ContourStrategy_generate(cs, p) ==
    IF cs = <<>> THEN <<>>
    ELSE LET contour    == Head(cs)
             offset_pts == offset_polyline(contour, p.tool_diameter \div 2)
         IN  (IF offset_pts = <<>> THEN <<>>
              ELSE <<FollowMoves(offset_pts, contour.closed, p)>>)
             \o ContourStrategy_generate(Tail(cs), p)

---------------------------------------------------------------------------
(* toolpath.rs: PerimeterStrategy *)

\* the area the max_by closure computes: 0.0 for a polyline without bounds
BoundsArea(poly) ==
    IF poly.points = <<>> THEN 0
    ELSE LET b == BoundingBox2(poly.points)
         IN  (b.max.x - b.min.x) * (b.max.y - b.min.y)

\* Iterator::max_by: the index of the last element of greatest area
\* (0 for an empty list, where max_by returns None)
RECURSIVE OuterIndexFrom(_, _, _)
OuterIndexFrom(cs, i, best) ==
    IF i > Len(cs) THEN best
    ELSE OuterIndexFrom(cs, i + 1,
            IF BoundsArea(cs[best]) > BoundsArea(cs[i]) THEN best ELSE i)

\* the mutant of OuterIndex that takes the last contour, whatever its area
OuterIndexLast(cs) == Len(cs)

OuterIndex(cs) == IF cs = <<>> THEN 0 ELSE OuterIndexFrom(cs, 2, 1)

\* the mutant of NumPasses that takes perimeter_passes as it is
NumPassesRaw(p) == p.perimeter_passes

\* params.perimeter_passes.max(1)
NumPasses(p) == Max(p.perimeter_passes, 1)

\* the mutant of PassOffset that offsets every pass like pass 0
PassOffsetFlat(p, pass) == p.tool_diameter \div 2

\* pass_offset = base_offset + (pass as f64) * params.step_over
PassOffset(p, pass) == p.tool_diameter \div 2 + pass * p.step_over

\* the mutant of PerimeterPass that ignores climb_cut
PerimeterPassNoClimb(contour, p, pass) ==
    LET pts == offset_polyline(contour, PassOffset(p, pass))
    IN  IF pts = <<>> THEN <<>>
        ELSE <<FollowMoves(pts, contour.closed, p)>>

\* the body of the pass loop for one pass (0-based)
PerimeterPass(contour, p, pass) ==
    LET pts        == offset_polyline(contour, PassOffset(p, pass))
        offset_pts == IF p.climb_cut THEN Reverse(pts) ELSE pts
    IN  IF pts = <<>> THEN <<>>
        ELSE <<FollowMoves(offset_pts, contour.closed, p)>>

RECURSIVE PerimeterPasses(_, _, _)
PerimeterPasses(contour, p, pass) ==
    IF pass >= NumPasses(p) THEN <<>>
    ELSE PerimeterPass(contour, p, pass) \o PerimeterPasses(contour, p, pass + 1)

PerimeterStrategy_generate(cs, p) ==
    IF OuterIndex(cs) = 0 THEN <<>>
    ELSE PerimeterPasses(cs[OuterIndex(cs)], p, 0)

---------------------------------------------------------------------------
(* toolpath.rs: scanline_intersect and PocketStrategy *)

StepFloor == 10   \* the 0.1 mm floor of step_over.max(0.1)

\* the mutant of EdgeCrosses with the open test: an edge ending on the scanline
\* is not counted
EdgeCrossesOpen(a, b, y) == (a.y < y /\ b.y > y) \/ (b.y < y /\ a.y > y)

\* the half-open test of scanline_intersect
EdgeCrosses(a, b, y) == (a.y <= y /\ b.y > y) \/ (b.y <= y /\ a.y > y)

RECURSIVE ScanEdges(_, _, _)
ScanEdges(pts, y, i) ==
    IF i > Len(pts) THEN <<>>
    ELSE LET a == pts[i]
             b == pts[(i % Len(pts)) + 1]
         IN  (IF EdgeCrosses(a, b, y)
              THEN <<a.x + Quot((y - a.y) * (b.x - a.x), b.y - a.y)>>
              ELSE <<>>)
             \o ScanEdges(pts, y, i + 1)

scanline_intersect(poly, y) ==
    IF Len(poly.points) < 2 THEN <<>> ELSE ScanEdges(poly.points, y, 1)

\* xs.sort_by(partial_cmp): insertion into an ascending sequence
RECURSIVE Insert(_, _)
Insert(x, s) ==
    IF s = <<>> THEN <<x>>
    ELSE IF x < Head(s) THEN <<x>> \o s
    ELSE <<Head(s)>> \o Insert(x, Tail(s))

RECURSIVE SortAsc(_)
SortAsc(s) == IF s = <<>> THEN <<>> ELSE Insert(s[Len(s)], SortAsc(SubSeq(s, 1, Len(s) - 1)))

\* the mutant of RowPair that insets only the left end of the pair
RowPairNoRightInset(pa, pb, offset, forward, y, p) ==
    LET x0 == pa + offset
        x1 == pb
    IN  IF x0 >= x1 THEN <<>>
        ELSE LET start_x == IF forward THEN x0 ELSE x1
                 end_x   == IF forward THEN x1 ELSE x0
             IN  <<Rapid(start_x, y, p.safe_z), Cut(start_x, y, p.cut_z),
                   Cut(end_x, y, p.cut_z), Rapid(end_x, y, p.safe_z)>>

\* the body of `for pair in xs.chunks(2)` for a full pair (pa, pb)
RowPair(pa, pb, offset, forward, y, p) ==
    LET x0 == pa + offset
        x1 == pb - offset
    IN  IF x0 >= x1 THEN <<>>
        ELSE LET start_x == IF forward THEN x0 ELSE x1
                 end_x   == IF forward THEN x1 ELSE x0
             IN  <<Rapid(start_x, y, p.safe_z), Cut(start_x, y, p.cut_z),
                   Cut(end_x, y, p.cut_z), Rapid(end_x, y, p.safe_z)>>

\* xs.chunks(2): a last chunk of one element is skipped
RECURSIVE RowChunks(_, _, _, _, _)
RowChunks(xs, offset, forward, y, p) ==
    IF Len(xs) < 2 THEN <<>>
    ELSE RowPair(xs[1], xs[2], offset, forward, y, p)
         \o RowChunks(SubSeq(xs, 3, Len(xs)), offset, forward, y, p)

\* the mutant of NextForward that toggles only after a row that emitted a cut
NextForwardIfEmitted(forward, row) == IF row = <<>> THEN forward ELSE ~forward

\* forward = !forward, at the end of every iteration of the row loop
NextForward(forward, row) == ~forward

\* while y <= y_max { ... y += step }
RECURSIVE PocketRows(_, _, _, _, _)
PocketRows(contour, p, y, y_max, forward) ==
    IF y > y_max THEN <<>>
    ELSE LET xs  == SortAsc(scanline_intersect(contour, y))
             row == RowChunks(xs, p.tool_diameter \div 2, forward, y, p)
         IN  row \o PocketRows(contour, p, y + Max(p.step_over, StepFloor), y_max,
                               NextForward(forward, row))

\* the toolpath of one contour (empty when the contour is skipped)
PocketContour(contour, p) ==
    IF Len(contour.points) < 3 \/ ~contour.closed THEN <<>>
    ELSE LET bounds == BoundingBox2(contour.points)
             offset == p.tool_diameter \div 2
         IN  PocketRows(contour, p, bounds.min.y + offset, bounds.max.y - offset, TRUE)

RECURSIVE PocketStrategy_generate(_, _)
PocketStrategy_generate(cs, p) ==
    IF cs = <<>> THEN <<>>
    ELSE LET tp == PocketContour(Head(cs), p)
         IN  (IF tp = <<>> THEN <<>> ELSE <<tp>>)
             \o PocketStrategy_generate(Tail(cs), p)

---------------------------------------------------------------------------
(* geometry.rs: Mesh.  An Option is a sequence: <<>> is None, <<v>> is Some(v) *)

TriVerts(t) == <<t.v0, t.v1, t.v2>>

\* BoundingBox::from_triangles
BoundingBox(tris) ==
    IF tris = <<>> THEN <<>>
    ELSE LET vs == {TriVerts(tris[i])[k] : i \in 1..Len(tris), k \in 1..3}
         IN  <<[min |-> Vec3(SetMin({v.x : v \in vs}), SetMin({v.y : v \in vs}),
                             SetMin({v.z : v \in vs})),
                max |-> Vec3(SetMax({v.x : v \in vs}), SetMax({v.y : v \in vs}),
                             SetMax({v.z : v \in vs}))]>>

\* Mesh::new
Mesh(tris) == [triangles |-> tris, bounds |-> BoundingBox(tris)]

\* Triangle::min_z and Triangle::max_z
min_z(t) == Min(Min(t.v0.z, t.v1.z), t.v2.z)

max_z(t) == Max(Max(t.v0.z, t.v1.z), t.v2.z)

---------------------------------------------------------------------------
(* slicer.rs: the height-field queries.  Their code is not among the       *)
(* sources; they are modelled from section 4.1 of the specification:       *)
(* 2-D barycentric point-in-triangle, Z interpolated from the vertices,    *)
(* the topmost covering triangle wins, absent when none covers.            *)

BaryDen(t) ==
    (t.v1.y - t.v2.y) * (t.v0.x - t.v2.x) + (t.v2.x - t.v1.x) * (t.v0.y - t.v2.y)

BaryNum0(t, x, y) ==
    (t.v1.y - t.v2.y) * (x - t.v2.x) + (t.v2.x - t.v1.x) * (y - t.v2.y)

BaryNum1(t, x, y) ==
    (t.v2.y - t.v0.y) * (x - t.v2.x) + (t.v0.x - t.v2.x) * (y - t.v2.y)

BaryNum2(t, x, y) == BaryDen(t) - BaryNum0(t, x, y) - BaryNum1(t, x, y)

SameSignOrZero(n, d) == (n = 0) \/ ((n > 0) = (d > 0))

Covers(t, x, y) ==
    /\ BaryDen(t) # 0
    /\ SameSignOrZero(BaryNum0(t, x, y), BaryDen(t))
    /\ SameSignOrZero(BaryNum1(t, x, y), BaryDen(t))
    /\ SameSignOrZero(BaryNum2(t, x, y), BaryDen(t))

HeightOn(t, x, y) ==
    Quot(BaryNum0(t, x, y) * t.v0.z + BaryNum1(t, x, y) * t.v1.z
         + BaryNum2(t, x, y) * t.v2.z, BaryDen(t))

\* the index of the topmost triangle covering (x, y), 0 when none does
TopTriangle(m, x, y) ==
    LET hit == {i \in 1..Len(m.triangles) : Covers(m.triangles[i], x, y)}
    IN  IF hit = {} THEN 0
        ELSE CHOOSE i \in hit :
                \A j \in hit :
                    \/ HeightOn(m.triangles[i], x, y) > HeightOn(m.triangles[j], x, y)
                    \/ (HeightOn(m.triangles[i], x, y) = HeightOn(m.triangles[j], x, y)
                        /\ i <= j)

mesh_height_at(m, x, y) ==
    IF TopTriangle(m, x, y) = 0 THEN <<>>
    ELSE <<HeightOn(m.triangles[TopTriangle(m, x, y)], x, y)>>

surface_normal_at(m, x, y) ==
    IF TopTriangle(m, x, y) = 0 THEN <<>>
    ELSE <<m.triangles[TopTriangle(m, x, y)].normal>>

---------------------------------------------------------------------------
(* toolpath.rs: ball_end_offset, sample_point, float_range *)

\* the mutant of ball_end_offset that takes the normal for a unit vector (of
\* length 1000) and does not normalise it
ball_end_offset_raw(normal, radius) ==
    <<Quot(radius * normal.x, 1000), Quot(radius * normal.y, 1000),
      radius - Quot(radius * normal.z, 1000)>>

\* (dx, dy, dz) for a normal given in any unit: it is normalised first
ball_end_offset(normal, radius) ==
    LET len == isqrt(normal.x * normal.x + normal.y * normal.y + normal.z * normal.z)
    IN  IF len = 0 THEN <<0, 0, 0>>
        ELSE <<Quot(radius * normal.x, len), Quot(radius * normal.y, len),
               radius - Quot(radius * normal.z, len)>>

\* the mutant of sample_point that samples z = 0 where the mesh has no height
sample_point_or_zero(m, x, y, is_ball_end, tool_radius) ==
    LET h == mesh_height_at(m, x, y)
    IN  IF h = <<>> THEN <<<<x, y, 0>>>> ELSE <<<<x, y, h[1]>>>>

\* Option<(f64, f64, f64)>
sample_point(m, x, y, is_ball_end, tool_radius) ==
    LET h == mesh_height_at(m, x, y)
        n == surface_normal_at(m, x, y)
    IN  IF h = <<>> THEN <<>>
        ELSE IF is_ball_end /\ n # <<>>
             THEN LET d == ball_end_offset(n[1], tool_radius)
                  IN  <<<<x + d[1], y + d[2], h[1] + d[3]>>>>
             ELSE <<<<x, y, h[1]>>>>

\* steps = ceil((end - start) / step) as usize + 1; value i is min(start + i*step, end)
float_range(start, end, step) ==
    [k \in 1..(CeilDiv(end - start, step) + 1) |-> Min(start + (k - 1) * step, end)]

\* the concatenation of a sequence of Options: filter_map(...).collect()
RECURSIVE FilterSome(_)
FilterSome(opts) ==
    IF opts = <<>> THEN <<>> ELSE Head(opts) \o FilterSome(Tail(opts))

---------------------------------------------------------------------------
(* toolpath.rs: ZigzagSurfaceStrategy::generate_surface *)

\* the samples of one row (scan X: the row is at y = c) or column (scan Y: at
\* x = c); lo..hi is the extent along the scan axis
ScanRow(m, dir, c, forward, lo, hi, step, is_ball_end, tool_radius) ==
    LET fr    == float_range(lo, hi, step)
        range == IF forward THEN fr ELSE Reverse(fr)
    IN  FilterSome([k \in 1..Len(range) |->
            IF dir = "X"
            THEN sample_point(m, range[k], c, is_ball_end, tool_radius)
            ELSE sample_point(m, c, range[k], is_ball_end, tool_radius)])

\* while c <= c_max { ...; forward = !forward; c += step }
RECURSIVE ScanRows(_, _, _, _, _, _, _, _, _, _)
ScanRows(m, dir, c, c_max, forward, lo, hi, step, is_ball_end, tool_radius) ==
    IF c > c_max THEN <<>>
    ELSE LET row == ScanRow(m, dir, c, forward, lo, hi, step, is_ball_end, tool_radius)
         IN  (IF row # <<>> THEN <<row>> ELSE <<>>)
             \o ScanRows(m, dir, c + step, c_max, ~forward, lo, hi, step,
                         is_ball_end, tool_radius)

\* `rows`, for a mesh with bounds
SurfaceRows(m, p, dir) ==
    LET b    == m.bounds[1]
        step == Max(p.step_over, StepFloor)
        ball == p.tool.tool_type = "BallEnd"
        r    == p.tool.diameter \div 2
    IN  IF dir = "X"
        THEN ScanRows(m, dir, b.min.y, b.max.y, TRUE, b.min.x, b.max.x, step, ball, r)
        ELSE ScanRows(m, dir, b.min.x, b.max.x, TRUE, b.min.y, b.max.y, step, ball, r)

\* the mutant of RowEntry that retracts and re-enters at every row
RowEntryRetract(prev_end, first, safe_z) ==
    <<Rapid(first[1], first[2], safe_z), Cut(first[1], first[2], first[3])>>

\* the first two moves of a row's toolpath
RowEntry(prev_end, first, safe_z) ==
    IF prev_end = <<>>
    THEN <<Rapid(first[1], first[2], safe_z), Cut(first[1], first[2], first[3])>>
    ELSE <<Cut(prev_end[1][1], prev_end[1][2], prev_end[1][3]),
           Cut(first[1], first[2], first[3])>>

\* for row in &rows { ... toolpaths.push(tp) }
RECURSIVE RowToolpaths(_, _, _)
RowToolpaths(rows, prev_end, safe_z) ==
    IF rows = <<>> THEN <<>>
    ELSE LET row == Head(rows)
         IN  IF row = <<>> THEN RowToolpaths(Tail(rows), prev_end, safe_z)
             ELSE <<RowEntry(prev_end, row[1], safe_z)
                    \o [k \in 1..(Len(row) - 1) |->
                            Cut(row[k + 1][1], row[k + 1][2], row[k + 1][3])]>>
                  \o RowToolpaths(Tail(rows), <<row[Len(row)]>>, safe_z)

\* the final retract appended to the last toolpath
FinalRetract(tps, rows, safe_z) ==
    IF tps = <<>> THEN tps
    ELSE LET last == rows[Len(rows)][Len(rows[Len(rows)])]
         IN  [tps EXCEPT ![Len(tps)] = @ \o <<Rapid(last[1], last[2], safe_z)>>]

generate_surface(m, p, dir) ==
    IF m.bounds = <<>> THEN <<>>
    ELSE LET rows == SurfaceRows(m, p, dir)
         IN  FinalRetract(RowToolpaths(rows, <<>>, p.safe_z), rows, p.safe_z)

---------------------------------------------------------------------------
(* slicer.rs: intersect_triangle_z, collect_segments *)

Segment2(a, b) == [a |-> a, b |-> b]

\* the point one edge (p, q) contributes: the crossing point when the edge
\* strictly straddles the plane, else p itself when p lies on the plane
EdgePoint(p, q, z) ==
    IF (p.z - z) * (q.z - z) < 0
    THEN <<Vec2(p.x + Quot((q.x - p.x) * (z - p.z), q.z - p.z),
                p.y + Quot((q.y - p.y) * (z - p.z), q.z - p.z))>>
    ELSE IF p.z = z THEN <<Vec2(p.x, p.y)>>
    ELSE <<>>

\* Vec::dedup_by: a point equal to the one kept before it is dropped
RECURSIVE Dedup(_)
Dedup(pts) ==
    IF Len(pts) < 2 THEN pts
    ELSE LET front == Dedup(SubSeq(pts, 1, Len(pts) - 1))
         IN  IF Dist2(pts[Len(pts)], front[Len(front)]) = 0 THEN front
             ELSE Append(front, pts[Len(pts)])

\* the function without `pts.dedup_by(..)`
intersect_triangle_z_nodedup(a, b, c, z) ==
    LET pts == EdgePoint(a, b, z) \o EdgePoint(b, c, z) \o EdgePoint(c, a, z)
    IN  IF Len(pts) >= 2 THEN <<Segment2(pts[1], pts[2])>> ELSE <<>>

\* Option<Segment2>
intersect_triangle_z(a, b, c, z) ==
    LET pts == Dedup(EdgePoint(a, b, z) \o EdgePoint(b, c, z) \o EdgePoint(c, a, z))
    IN  IF Len(pts) >= 2 THEN <<Segment2(pts[1], pts[2])>> ELSE <<>>

RECURSIVE CollectFrom(_, _)
CollectFrom(tris, z) ==
    IF tris = <<>> THEN <<>>
    ELSE LET tri == Head(tris)
         IN  (IF min_z(tri) > z \/ max_z(tri) < z THEN <<>>
              ELSE intersect_triangle_z(tri.v0, tri.v1, tri.v2, z))
             \o CollectFrom(Tail(tris), z)

collect_segments(m, z) == CollectFrom(m.triangles, z)

---------------------------------------------------------------------------
(* slicer.rs: chain_segments.  eps = 1e-6 mm is below the grid unit: two grid  *)
(* points are closer than eps exactly when they are the same point.           *)

Near(a, b) == Dist2(a, b) = 0

\* the first unused segment with an end at `tail` (0 when there is none)
RECURSIVE FindNext(_, _, _, _)
FindNext(segments, used, tail, j) ==
    IF j > Len(segments) THEN 0
    ELSE IF ~used[j] /\ (Near(segments[j].a, tail) \/ Near(segments[j].b, tail)) THEN j
    ELSE FindNext(segments, used, tail, j + 1)

\* the inner `loop`: extend the chain until no unused segment continues it;
\* the result is the pair <<chain, used>>
RECURSIVE ExtendChain(_, _, _)
ExtendChain(segments, used, chain) ==
    LET tail == chain[Len(chain)]
        j    == FindNext(segments, used, tail, 1)
    IN  IF j = 0 THEN <<chain, used>>
        ELSE ExtendChain(segments, [used EXCEPT ![j] = TRUE],
                Append(chain, IF Near(segments[j].a, tail) THEN segments[j].b
                              ELSE segments[j].a))

\* the mutant of ChainsFrom that starts a chain at every segment, used or not
RECURSIVE ChainsFromEvery(_, _, _)
ChainsFromEvery(segments, used, start_idx) ==
    IF start_idx > Len(segments) THEN <<>>
    ELSE LET r == ExtendChain(segments, [used EXCEPT ![start_idx] = TRUE],
                              <<segments[start_idx].a, segments[start_idx].b>>)
         IN  <<r[1]>> \o ChainsFromEvery(segments, r[2], start_idx + 1)

\* the outer loop over start_idx: the chains, in the order they are started
RECURSIVE ChainsFrom(_, _, _)
ChainsFrom(segments, used, start_idx) ==
    IF start_idx > Len(segments) THEN <<>>
    ELSE IF used[start_idx] THEN ChainsFrom(segments, used, start_idx + 1)
    ELSE LET r == ExtendChain(segments, [used EXCEPT ![start_idx] = TRUE],
                              <<segments[start_idx].a, segments[start_idx].b>>)
         IN  <<r[1]>> \o ChainsFrom(segments, r[2], start_idx + 1)

RawChains(segments) ==
    IF segments = <<>> THEN <<>>
    ELSE ChainsFrom(segments, [j \in 1..Len(segments) |-> FALSE], 1)

\* closed = chain.len() > 2 && dist(chain[0], chain.last()) < eps
ClosedChain(chain) == Len(chain) > 2 /\ Near(chain[1], chain[Len(chain)])

\* the mutant of FinishChain that keeps the duplicate closing point
FinishChainNoPop(chain) == Polyline(chain, ClosedChain(chain))

\* if closed { chain.pop() }; Polyline::new(chain, closed)
FinishChain(chain) ==
    IF ClosedChain(chain) THEN Polyline(SubSeq(chain, 1, Len(chain) - 1), TRUE)
    ELSE Polyline(chain, FALSE)

chain_segments(segments) ==
    [k \in 1..Len(RawChains(segments)) |-> FinishChain(RawChains(segments)[k])]

slice_at_z(m, z) == chain_segments(collect_segments(m, z))

\* the mutant of FirstZ that starts at the bottom of the mesh
FirstZAtBottom(m, h) == m.bounds[1].min.z

\* z_min = bounds.min.z + layer_height * 0.5
FirstZ(m, h) == m.bounds[1].min.z + h \div 2

---------------------------------------------------------------------------
(* tool.rs: Tool.  The enum ToolType is a name; the payload of FaceMill is   *)
(* the field effective_diameter (an Option: <<>> for the other tool types).  *)

Tool(tool_type, effective_diameter, diameter, flute_length, corner_radius) ==
    [tool_type          |-> tool_type,
     effective_diameter |-> effective_diameter,
     diameter           |-> diameter,
     flute_length       |-> flute_length,
     corner_radius      |-> corner_radius]

\* Tool::new, as tool_from_config calls it (ToolType::EndMill)
Tool_new(tool_type, diameter, flute_length, corner_radius) ==
    Tool(tool_type, <<>>, diameter, flute_length, corner_radius)

Tool_ball_end(diameter, flute_length) ==
    Tool("BallEnd", <<>>, diameter, flute_length, diameter \div 2)

Tool_face_mill(diameter, effective_diameter, flute_length) ==
    Tool("FaceMill", <<effective_diameter>>, diameter, flute_length, 0)

Tool_effective_diameter(tool) ==
    IF tool.tool_type = "FaceMill" THEN tool.effective_diameter[1] ELSE tool.diameter

\* 3.175 mm, the diameter of Tool::default, on the grid
ToolDefaultDiameter == 317

Tool_default == Tool("EndMill", <<>>, ToolDefaultDiameter, 1000, 0)

\* CutParams::default
CutParams_default ==
    [tool             |-> Tool_default,
     tool_diameter    |-> Tool_default.diameter,
     step_over        |-> 150,
     step_down        |-> 100,
     feed_rate        |-> 800,
     plunge_rate      |-> 300,
     safe_z           |-> 500,
     cut_z            |-> 0,
     climb_cut        |-> FALSE,
     perimeter_passes |-> 1]

---------------------------------------------------------------------------
(* lib.rs: the configuration and the parameter records built from it *)

tool_from_config(c) ==
    IF c.tool_type = "ball_end" THEN Tool_ball_end(c.tool_diameter, 1000)
    ELSE IF c.tool_type = "face_mill"
    THEN Tool_face_mill(c.tool_diameter,
                        IF c.effective_diameter = <<>> THEN c.tool_diameter
                        ELSE c.effective_diameter[1],
                        1000)
    ELSE Tool_new("EndMill", c.tool_diameter, 1000, c.corner_radius)

\* the mutant of FacadeCutParams that caches the effective cutting diameter
FacadeCutParamsEffective(c) ==
    [tool             |-> tool_from_config(c),
     tool_diameter    |-> Tool_effective_diameter(tool_from_config(c)),
     step_over        |-> c.step_over,
     step_down        |-> c.step_down,
     feed_rate        |-> c.feed_rate,
     plunge_rate      |-> c.plunge_rate,
     safe_z           |-> c.safe_z,
     cut_z            |-> c.cut_depth,
     climb_cut        |-> c.climb_cut,
     perimeter_passes |-> c.perimeter_passes]

\* the `cut_params` literal of process_stl, process_svg, build_toolpaths_stl
\* and build_toolpaths_svg
FacadeCutParams(c) ==
    [tool             |-> tool_from_config(c),
     tool_diameter    |-> c.tool_diameter,
     step_over        |-> c.step_over,
     step_down        |-> c.step_down,
     feed_rate        |-> c.feed_rate,
     plunge_rate      |-> c.plunge_rate,
     safe_z           |-> c.safe_z,
     cut_z            |-> c.cut_depth,
     climb_cut        |-> c.climb_cut,
     perimeter_passes |-> c.perimeter_passes]

\* the `gcode_params` literal of process_stl and process_svg
GcodeParams(c) ==
    [feed_rate     |-> c.feed_rate,
     plunge_rate   |-> c.plunge_rate,
     spindle_speed |-> c.spindle_speed,
     safe_z        |-> c.safe_z,
     unit_mm       |-> TRUE]

---------------------------------------------------------------------------
(* lib.rs: the strategy dispatch of the 3-D pipelines *)

\* Box<dyn ToolpathStrategy>::generate: "pocket", "perimeter", else contour
Generate(kind, cs, p) ==
    IF kind = "pocket" THEN PocketStrategy_generate(cs, p)
    ELSE IF kind = "perimeter" THEN PerimeterStrategy_generate(cs, p)
    ELSE ContourStrategy_generate(cs, p)

\* for (z, contours) in &layers { p.cut_z = *z; all.extend(generate(contours, &p)) }
RECURSIVE LayerToolpaths(_, _, _)
LayerToolpaths(kind, ls, p) ==
    IF ls = <<>> THEN <<>>
    ELSE Generate(kind, Head(ls)[2], [p EXCEPT !.cut_z = Head(ls)[1]])
         \o LayerToolpaths(kind, Tail(ls), p)

\* 0.01 mm: the height above the bottom of the mesh at which the fallback slices
FallbackLift == 1

FallbackZ(m) == IF m.bounds = <<>> THEN 0 ELSE m.bounds[1].min.z + FallbackLift

\* if all.is_empty() { all.extend(generate(&slice_at_z(mesh, zmin + 0.01), &cut_params)) }
WithFallback(kind, all, m, p) ==
    IF all = <<>> THEN Generate(kind, slice_at_z(m, FallbackZ(m)), p) ELSE all

\* the `match config.strategy` of process_stl, given the layers of slice_mesh
\* (the "zigzag" arm does not slice)
process_stl_toolpaths(label, m, ls, p) ==
    IF label = "pocket" THEN LayerToolpaths("pocket", ls, p)
    ELSE IF label = "slice" THEN LayerToolpaths("contour", ls, p)
    ELSE IF label = "zigzag" THEN generate_surface(m, p, "X")
    ELSE IF label = "perimeter" THEN LayerToolpaths("perimeter", ls, p)
    ELSE WithFallback("contour", LayerToolpaths("contour", ls, p), m, p)

---------------------------------------------------------------------------
(* lib.rs: the depth loop of process_svg and build_toolpaths_svg.  In a    *)
(* run of the 2-D pipelines the heights (cut_depth, step_down, safe_z, z)  *)
(* are in units of 0.0001 mm, so that the 0.001 mm tolerance of the loop   *)
(* is ten units; the 2-D strategies copy cut_z and safe_z into the moves   *)
(* and compute with x and y only.                                          *)

\* 0.001 mm in units of 0.0001 mm
DepthTol == 10

\* the loop test without its tolerance
DepthContinuesExact(z, c) == z > c.cut_depth

\* while z > config.cut_depth - 0.001
DepthContinues(z, c) == z > c.cut_depth - DepthTol

\* the mutant of NextDepth that does not clamp at cut_depth
NextDepthNoClamp(z, c) == z - c.step_down

\* z -= step_down; if z < cut_depth { z = cut_depth }
NextDepth(z, c) ==
    IF z - c.step_down < c.cut_depth THEN c.cut_depth ELSE z - c.step_down

\* if (z - config.cut_depth).abs() < 0.001 { break }
DepthBreaks(z, c) == Abs(z - c.cut_depth) < DepthTol

---------------------------------------------------------------------------
(* gcode.rs: emit_gcode.  A line of G-code is a record: its word and its   *)
(* numbers.  `hundredth` is 0.01 mm in the unit of the heights of the run. *)

Header(gp) ==
    <<[op |-> "comment", text |-> "RustCAM - generated G-code"],
      [op |-> IF gp.unit_mm THEN "G21" ELSE "G20"],
      [op |-> "G90"],
      [op |-> "G0", z |-> gp.safe_z],
      [op |-> "M3", s |-> gp.spindle_speed],
      [op |-> "blank"]>>

Footer(gp) ==
    <<[op |-> "G0", z |-> gp.safe_z],
      [op |-> "M5"],
      [op |-> "G0", x |-> 0, y |-> 0],
      [op |-> "M2"]>>

\* the F word of a cut move
Feed(mv, last_rapid, gp, hundredth) ==
    IF mv.z < gp.safe_z - hundredth /\ last_rapid THEN gp.plunge_rate ELSE gp.feed_rate

\* for mv in &tp.moves { ... }
RECURSIVE MoveLines(_, _, _, _)
MoveLines(moves, last_rapid, gp, hundredth) ==
    IF moves = <<>> THEN <<>>
    ELSE LET mv == Head(moves)
         IN  IF mv.rapid
             THEN <<[op |-> "G0", x |-> mv.x, y |-> mv.y, z |-> mv.z]>>
                  \o MoveLines(Tail(moves), TRUE, gp, hundredth)
             ELSE <<[op |-> "G1", x |-> mv.x, y |-> mv.y, z |-> mv.z,
                     f |-> Feed(mv, last_rapid, gp, hundredth)]>>
                  \o MoveLines(Tail(moves), FALSE, gp, hundredth)

\* for (idx, tp) in toolpaths.iter().enumerate() { ... }
RECURSIVE ToolpathLines(_, _, _, _)
ToolpathLines(tps, idx, gp, hundredth) ==
    IF idx > Len(tps) THEN <<>>
    ELSE <<[op |-> "comment", toolpath |-> idx]>>
         \o MoveLines(tps[idx], TRUE, gp, hundredth)
         \o <<[op |-> "blank"]>>
         \o ToolpathLines(tps, idx + 1, gp, hundredth)

\* the mutant of emit_gcode that opens a toolpath section before looking at the list
emit_gcode_section(tps, gp, hundredth) ==
    Header(gp) \o <<[op |-> "comment", toolpath |-> 1]>>
               \o (IF tps = <<>> THEN <<[op |-> "blank"]>>
                   ELSE Tail(ToolpathLines(tps, 1, gp, hundredth)))
               \o Footer(gp)

emit_gcode(tps, gp, hundredth) ==
    Header(gp) \o ToolpathLines(tps, 1, gp, hundredth) \o Footer(gp)

\* lib.rs: flatten_moves
RECURSIVE flatten_moves(_)
flatten_moves(tps) ==
    IF tps = <<>> THEN <<>> ELSE Head(tps) \o flatten_moves(Tail(tps))

\* the cutting moves of one toolpath, as [x, y, z]
RECURSIVE CutPoints(_)
CutPoints(moves) ==
    IF moves = <<>> THEN <<>>
    ELSE (IF Head(moves).rapid THEN <<>>
          ELSE <<<<Head(moves).x, Head(moves).y, Head(moves).z>>>>)
         \o CutPoints(Tail(moves))

\* lib.rs: the preview paths of preview_stl
RECURSIVE preview_paths(_)
preview_paths(tps) ==
    IF tps = <<>> THEN <<>>
    ELSE (IF CutPoints(Head(tps)) = <<>> THEN <<>> ELSE <<CutPoints(Head(tps))>>)
         \o preview_paths(Tail(tps))

---------------------------------------------------------------------------
(* Inputs.  Lengths are in grid units of 0.01 mm: 1000 is 10 mm. *)

MaxPasses == 3   \* perimeter_passes ranges over 0..MaxPasses

MaxSegments == 3   \* chain_segments is called with up to MaxSegments arbitrary segments

Pts(s) == [i \in 1..Len(s) |-> Vec2(s[i][1], s[i][2])]

\* the counter-clockwise 10 mm square of the tests of toolpath.rs
Square == Polyline(Pts(<<<<0, 0>>, <<1000, 0>>, <<1000, 1000>>, <<0, 1000>>>>), TRUE)

SquareCW == Polyline(Pts(<<<<0, 0>>, <<0, 1000>>, <<1000, 1000>>, <<1000, 0>>>>), TRUE)

\* a closed loop with a 1 mm waist at y = 5 mm
Hourglass ==
    Polyline(Pts(<<<<0, 0>>, <<1000, 0>>, <<550, 500>>, <<1000, 1000>>,
                   <<0, 1000>>, <<450, 500>>>>), TRUE)

TriangleLoop == Polyline(Pts(<<<<0, 0>>, <<1000, 0>>, <<500, 1000>>>>), TRUE)

\* the 20 mm square of test_req_010_perimeter_follows_outer
BigSquare == Polyline(Pts(<<<<0, 0>>, <<2000, 0>>, <<2000, 2000>>, <<0, 2000>>>>), TRUE)

OpenPath == Polyline(Pts(<<<<0, 0>>, <<1000, 0>>, <<1000, 500>>>>), FALSE)

\* an open path that ends where it began
ReturnPath == Polyline(Pts(<<<<0, 0>>, <<1000, 0>>, <<1000, 500>>, <<0, 0>>>>), FALSE)

OnePoint == Polyline(Pts(<<<<300, 300>>>>), FALSE)

OnePointClosed == Polyline(Pts(<<<<300, 300>>>>), TRUE)

EmptyPolyline == Polyline(<<>>, FALSE)

\* a 0.4 mm square, for the runs at the 0.1 mm floor of the step
SmallSquare == Polyline(Pts(<<<<0, 0>>, <<40, 0>>, <<40, 40>>, <<0, 40>>>>), TRUE)

Polylines ==
    {Square, SquareCW, Hourglass, TriangleLoop, BigSquare, OpenPath, ReturnPath,
     OnePoint, OnePointClosed, EmptyPolyline}

ContourLists ==
    LET pair == {Square, BigSquare, OpenPath, OnePoint, EmptyPolyline}
    IN  {<<>>} \cup {<<a>> : a \in Polylines} \cup {<<a, b>> : a, b \in pair}

\* the CutParams the facade builds: tool.diameter and tool_diameter are both
\* config.tool_diameter
CutParams(tool_type, diameter, step_over, climb_cut, perimeter_passes) ==
    [tool             |-> [tool_type |-> tool_type, diameter |-> diameter],
     tool_diameter    |-> diameter,
     step_over        |-> step_over,
     step_down        |-> 100,
     safe_z           |-> 500,
     cut_z            |-> -100,
     climb_cut        |-> climb_cut,
     perimeter_passes |-> perimeter_passes]

ParamSet2D ==
    {CutParams("EndMill", d, s, c, n) :
        d \in {0, 200}, s \in {200, 600}, c \in BOOLEAN, n \in 0..MaxPasses}

\* step-overs at or below the 0.1 mm floor
ParamSetFloor ==
    {CutParams("EndMill", d, s, c, n) :
        d \in {0, 20}, s \in {-100, 0}, c \in BOOLEAN, n \in 0..MaxPasses}

ParamSet3D ==
    {CutParams(t, d, s, FALSE, 1) :
        t \in {"EndMill", "BallEnd"}, d \in {0, 200}, s \in {0, 20}}

Tri(n, a, b, c) ==
    [normal |-> Vec3(n[1], n[2], n[3]), v0 |-> Vec3(a[1], a[2], a[3]),
     v1 |-> Vec3(b[1], b[2], b[3]), v2 |-> Vec3(c[1], c[2], c[3])]

EmptyMesh == Mesh(<<>>)

\* one horizontal triangle, as make_simple_mesh of toolpath.rs, 0.4 mm wide
FlatTriangleMesh == Mesh(<<Tri(<<0, 0, 1000>>, <<0, 0, 50>>, <<40, 0, 50>>, <<20, 40, 50>>)>>)

\* two triangles forming a ramp from z = 0 at y = 0 to z = 0.4 mm at y = 0.4 mm
RampMesh ==
    Mesh(<<Tri(<<0, -707, 707>>, <<0, 0, 0>>, <<40, 0, 0>>, <<40, 40, 40>>),
           Tri(<<0, -707, 707>>, <<0, 0, 0>>, <<40, 40, 40>>, <<0, 40, 40>>)>>)

\* two horizontal triangles far apart: the rows between them sample nothing
TwoIslandsMesh ==
    Mesh(<<Tri(<<0, 0, 1000>>, <<0, 0, 50>>, <<40, 0, 50>>, <<0, 10, 50>>),
           Tri(<<0, 0, 1000>>, <<0, 40, 30>>, <<40, 40, 30>>, <<40, 30, 30>>)>>)

---------------------------------------------------------------------------
(* The strategies: each action applies one strategy to the drawn input. *)

NoSlice ==
    /\ layer_height = 0
    /\ layers = <<>>
    /\ chains = <<>>
    /\ slice_pc = "idle"
    /\ slice_z = 0

\* no entry point of lib.rs runs
NoFacade ==
    /\ config = <<>>
    /\ entry = "none"
    /\ pc = "idle"
    /\ depth_z = 0
    /\ depth_cut = <<>>
    /\ output = <<>>
    /\ tick = 0
    /\ layer_idx = 0
    /\ ret = "none"

\* no call is in progress
NoCall ==
    /\ args = <<>>
    /\ result = <<>>

Init ==
    /\ \/ /\ contours \in ContourLists
          /\ params \in ParamSet2D
          /\ mesh = EmptyMesh
          /\ scan_direction = "X"
       \/ /\ contours \in {<<SmallSquare>>, <<SmallSquare, SmallSquare>>}
          /\ params \in ParamSetFloor
          /\ mesh = EmptyMesh
          /\ scan_direction = "X"
       \/ /\ contours = <<>>
          /\ params \in ParamSet3D
          /\ mesh \in {FlatTriangleMesh, RampMesh, TwoIslandsMesh}
          /\ scan_direction \in {"X", "Y"}
    /\ strategy = "none"
    /\ toolpaths = <<>>
    /\ NoSlice
    /\ NoFacade
    /\ NoCall

Contour ==
    /\ strategy = "none"
    /\ strategy' = "contour"
    /\ toolpaths' = ContourStrategy_generate(contours, params)
    /\ UNCHANGED <<contours, mesh, params, scan_direction>>
    /\ UNCHANGED sliceVars
    /\ UNCHANGED facadeVars
    /\ UNCHANGED pureVars

Pocket ==
    /\ strategy = "none"
    /\ strategy' = "pocket"
    /\ toolpaths' = PocketStrategy_generate(contours, params)
    /\ UNCHANGED <<contours, mesh, params, scan_direction>>
    /\ UNCHANGED sliceVars
    /\ UNCHANGED facadeVars
    /\ UNCHANGED pureVars

Perimeter ==
    /\ strategy = "none"
    /\ strategy' = "perimeter"
    /\ toolpaths' = PerimeterStrategy_generate(contours, params)
    /\ UNCHANGED <<contours, mesh, params, scan_direction>>
    /\ UNCHANGED sliceVars
    /\ UNCHANGED facadeVars
    /\ UNCHANGED pureVars

Zigzag ==
    /\ strategy = "none"
    /\ strategy' = "zigzag"
    /\ toolpaths' = generate_surface(mesh, params, scan_direction)
    /\ UNCHANGED <<contours, mesh, params, scan_direction>>
    /\ UNCHANGED sliceVars
    /\ UNCHANGED facadeVars
    /\ UNCHANGED pureVars

Next == Contour \/ Pocket \/ Perimeter \/ Zigzag

Spec == Init /\ [][Next]_vars

---------------------------------------------------------------------------
(* The slicer: slice_mesh, one action per iteration of its loop. *)

\* a tetrahedron 0.4 mm high on a horizontal base: a watertight body
TetraMesh ==
    Mesh(<<Tri(<<0, -1, 0>>, <<0, 0, 0>>, <<40, 0, 0>>, <<0, 0, 40>>),
           Tri(<<1, 1, 1>>, <<40, 0, 0>>, <<0, 40, 0>>, <<0, 0, 40>>),
           Tri(<<-1, 0, 0>>, <<0, 40, 0>>, <<0, 0, 0>>, <<0, 0, 40>>),
           Tri(<<0, 0, -1>>, <<0, 0, 0>>, <<0, 40, 0>>, <<40, 0, 0>>)>>)

\* one triangle crossing the planes, as t1 of make_flat_quad_mesh of slicer.rs
SingleTriMesh == Mesh(<<Tri(<<0, 0, 1>>, <<0, 0, 0>>, <<40, 0, 40>>, <<40, 40, 0>>)>>)

\* the two triangles of make_flat_quad_mesh
FlatQuadMesh ==
    Mesh(<<Tri(<<0, 0, 1>>, <<0, 0, 0>>, <<40, 0, 40>>, <<40, 40, 0>>),
           Tri(<<0, 0, 1>>, <<0, 0, 0>>, <<40, 40, 0>>, <<0, 40, 40>>)>>)

\* two triangles sharing the edge (40,0,40)-(40,40,0), listed in opposite senses
StripMesh ==
    Mesh(<<Tri(<<0, 0, 1>>, <<0, 0, 0>>, <<40, 0, 40>>, <<40, 40, 0>>),
           Tri(<<0, 0, 1>>, <<80, 40, 40>>, <<40, 40, 0>>, <<40, 0, 40>>)>>)

\* two tetrahedra, one 0.6 mm above the other: no triangle between z = 20 and 60
TwoBodiesMesh ==
    Mesh(<<Tri(<<0, -1, 0>>, <<0, 0, 0>>, <<20, 0, 0>>, <<0, 0, 20>>),
           Tri(<<1, 1, 1>>, <<20, 0, 0>>, <<0, 20, 0>>, <<0, 0, 20>>),
           Tri(<<-1, 0, 0>>, <<0, 20, 0>>, <<0, 0, 0>>, <<0, 0, 20>>),
           Tri(<<0, 0, -1>>, <<0, 0, 0>>, <<0, 20, 0>>, <<20, 0, 0>>),
           Tri(<<0, -1, 0>>, <<0, 0, 60>>, <<20, 0, 60>>, <<0, 0, 80>>),
           Tri(<<1, 1, 1>>, <<20, 0, 60>>, <<0, 20, 60>>, <<0, 0, 80>>),
           Tri(<<-1, 0, 0>>, <<0, 20, 60>>, <<0, 0, 60>>, <<0, 0, 80>>),
           Tri(<<0, 0, -1>>, <<0, 0, 60>>, <<0, 20, 60>>, <<20, 0, 60>>)>>)

\* a triangle with one vertex at mid height: the plane z = 20 passes through it
MidVertexMesh == Mesh(<<Tri(<<0, 0, 1>>, <<0, 0, 0>>, <<40, 0, 20>>, <<0, 40, 40>>)>>)

SliceMeshes ==
    {EmptyMesh, FlatTriangleMesh, TetraMesh, SingleTriMesh, FlatQuadMesh, StripMesh,
     TwoBodiesMesh, MidVertexMesh}

\* layer heights h > 0, in grid units
LayerHeights == {8, 10, 20, 40}

InitSlicer ==
    /\ mesh \in SliceMeshes
    /\ layer_height \in LayerHeights
    /\ layers = <<>>
    /\ chains = <<>>
    /\ slice_pc = "idle"
    /\ slice_z = 0
    /\ contours = <<>>
    /\ params = CutParams("EndMill", 200, 200, FALSE, 1)
    /\ scan_direction = "X"
    /\ strategy = "none"
    /\ toolpaths = <<>>
    /\ config = <<>>
    /\ entry = "slice_mesh"
    /\ pc = "slicing"
    /\ depth_z = 0
    /\ depth_cut = <<>>
    /\ output = <<>>
    /\ tick = 0
    /\ layer_idx = 0
    /\ ret = "none"
    /\ NoCall

\* slice_mesh up to the first test of the loop: no bounds, no layers
SliceStart ==
    /\ pc = "slicing"
    /\ slice_pc = "idle"
    /\ IF mesh.bounds = <<>>
       THEN slice_pc' = "done" /\ slice_z' = slice_z
       ELSE slice_pc' = "loop" /\ slice_z' = FirstZ(mesh, layer_height)
    /\ UNCHANGED <<mesh, layer_height, layers, chains, tick>>
    /\ UNCHANGED strategyVars
    /\ UNCHANGED callerVars
    /\ UNCHANGED pureVars

\* one iteration of `while z <= z_max`
SliceLayer ==
    /\ pc = "slicing"
    /\ slice_pc = "loop"
    /\ slice_z <= mesh.bounds[1].max.z
    /\ LET segments == collect_segments(mesh, slice_z)
       IN  IF chain_segments(segments) # <<>>
           THEN /\ layers' = Append(layers, <<slice_z, chain_segments(segments)>>)
                /\ chains' = Append(chains, RawChains(segments))
           ELSE UNCHANGED <<layers, chains>>
    /\ slice_z' = slice_z + layer_height
    /\ tick' = 1 - tick
    /\ UNCHANGED <<mesh, layer_height, slice_pc>>
    /\ UNCHANGED strategyVars
    /\ UNCHANGED callerVars
    /\ UNCHANGED pureVars

\* the loop ends and slice_mesh returns `layers`
SliceReturn ==
    /\ pc = "slicing"
    /\ slice_pc = "loop"
    /\ slice_z > mesh.bounds[1].max.z
    /\ slice_pc' = "done"
    /\ UNCHANGED <<mesh, layer_height, layers, chains, slice_z, tick>>
    /\ UNCHANGED strategyVars
    /\ UNCHANGED callerVars
    /\ UNCHANGED pureVars

NextSlicer == SliceStart \/ SliceLayer \/ SliceReturn

SpecSlicer == InitSlicer /\ [][NextSlicer]_vars

---------------------------------------------------------------------------
(* The entry points of lib.rs: process_stl, preview_stl, sim_moves_stl,    *)
(* process_svg and sim_moves_svg, from the parsed input to the returned    *)
(* string.  slice_mesh runs as the slicer's actions above.                 *)

CamConfig(tool_type, effective_diameter, tool_diameter, step_over, step_down, safe_z, cut_depth, label) ==
    [tool_diameter      |-> tool_diameter,
     tool_type          |-> tool_type,
     corner_radius      |-> 0,
     effective_diameter |-> effective_diameter,
     step_over          |-> step_over,
     step_down          |-> step_down,
     feed_rate          |-> 800,
     plunge_rate        |-> 300,
     spindle_speed      |-> 12000,
     safe_z             |-> safe_z,
     cut_depth          |-> cut_depth,
     strategy           |-> label,
     climb_cut          |-> FALSE,
     perimeter_passes   |-> 1]

StlEntries == {"process_stl", "preview_stl", "sim_moves_stl"}

SvgEntries == {"process_svg", "sim_moves_svg"}

\* the configurations of the 3-D runs: every tool_type arm of tool_from_config
\* (with an unknown string), every strategy label; step_down in grid units,
\* where 0 is drawn for MidVertexMesh only, whose cut at its lowest vertex is
\* empty
StlConfigs ==
    LET tools  == {<<"end_mill", <<>>>>, <<"ball_end", <<>>>>, <<"face_mill", <<>>>>,
                   <<"face_mill", <<6>>>>, <<"v_bit", <<>>>>}
        labels == {"contour", "slice", "pocket", "perimeter", "zigzag"}
    IN  {CamConfig(t[1], t[2], 10, 20, sd, 500, -100, l) :
            t \in tools, sd \in {0, 20, 100}, l \in labels}

\* the configurations of the 2-D runs; cut_depth and step_down in units of
\* 0.0001 mm; step_down 0 is drawn for the pocket of an open path only, which
\* cuts nothing
SvgConfigs ==
    {CamConfig("end_mill", <<>>, 200, 600, sd, 50000, cd, l) :
        sd \in {0, 3333, 5000, 20000}, cd \in {-10000, 0, 5, 10000},
        l \in {"contour", "pocket", "perimeter"}}

\* 0.01 mm in the unit of the heights of the run
Hundredth(e) == IF e \in SvgEntries THEN 100 ELSE 1

\* whether the arm of the label ends with `if all.is_empty() { fallback }`:
\* in process_stl the default arm only, in build_toolpaths_stl every arm
HasFallback(e, label) ==
    IF e = "process_stl" THEN label \notin {"pocket", "slice", "zigzag", "perimeter"}
    ELSE TRUE

InitFacade ==
    /\ \/ /\ entry \in StlEntries
          /\ mesh \in {EmptyMesh, FlatTriangleMesh, TetraMesh, SingleTriMesh,
                      TwoIslandsMesh, RampMesh, MidVertexMesh, TwoBodiesMesh}
          /\ config \in StlConfigs
          /\ config.step_down = 0 => mesh = MidVertexMesh
          /\ contours = <<>>
       \/ /\ entry \in SvgEntries
          /\ mesh = EmptyMesh
          /\ config \in SvgConfigs
          /\ contours \in {<<Square>>, <<OpenPath>>, <<Square, OpenPath>>}
          /\ config.step_down = 0 =>
                /\ config.strategy = "pocket"
                /\ contours = <<OpenPath>>
                /\ config.cut_depth < 0
    /\ pc = "start"
    /\ params = CutParams_default
    /\ scan_direction = "X"
    /\ strategy = "none"
    /\ toolpaths = <<>>
    /\ layer_height = config.step_down
    /\ layers = <<>>
    /\ chains = <<>>
    /\ slice_pc = "idle"
    /\ slice_z = 0
    /\ depth_z = 0
    /\ depth_cut = <<>>
    /\ output = <<>>
    /\ tick = 0
    /\ layer_idx = 0
    /\ ret = "none"
    /\ NoCall

\* the 3-D entry points up to the strategy dispatch: the cut parameters
StlStart ==
    /\ pc = "start"
    /\ entry \in StlEntries
    /\ params' = FacadeCutParams(config)
    /\ pc' = IF config.strategy = "zigzag" THEN "surface" ELSE "slicing"
    /\ UNCHANGED <<contours, mesh, scan_direction, strategy, toolpaths>>
    /\ UNCHANGED sliceVars
    /\ UNCHANGED <<config, entry, depth_z, depth_cut, output, tick, layer_idx, ret>>
    /\ UNCHANGED pureVars

\* the "zigzag" arm: no slicing
StlSurface ==
    /\ pc = "surface"
    /\ toolpaths' = generate_surface(mesh, params, "X")
    /\ pc' = "built"
    /\ UNCHANGED <<contours, mesh, params, scan_direction, strategy>>
    /\ UNCHANGED sliceVars
    /\ UNCHANGED <<config, entry, depth_z, depth_cut, output, tick, layer_idx, ret>>
    /\ UNCHANGED pureVars

\* slice_mesh has returned: `for (z, contours) in &layers` begins
StlLoop ==
    /\ pc = "slicing"
    /\ slice_pc = "done"
    /\ layer_idx' = 1
    /\ pc' = "layers"
    /\ UNCHANGED strategyVars
    /\ UNCHANGED sliceVars
    /\ UNCHANGED <<config, entry, depth_z, depth_cut, output, tick, ret, mesh>>
    /\ UNCHANGED pureVars

\* the iteration without `p.cut_z = *z`
StlLayerAtCutDepth ==
    /\ pc = "layers"
    /\ layer_idx <= Len(layers)
    /\ args' = [kind     |-> config.strategy,
                contours |-> layers[layer_idx][2],
                p        |-> params]
    /\ layer_idx' = layer_idx + 1
    /\ pc' = "generate"
    /\ ret' = "layers"
    /\ UNCHANGED strategyVars
    /\ UNCHANGED sliceVars
    /\ UNCHANGED <<config, entry, depth_z, depth_cut, output, tick, mesh, result>>

\* one iteration: p = cut_params.clone(); p.cut_z = *z; generate(contours, &p)
StlLayer ==
    /\ pc = "layers"
    /\ layer_idx <= Len(layers)
    /\ args' = [kind     |-> config.strategy,
                contours |-> layers[layer_idx][2],
                p        |-> [params EXCEPT !.cut_z = layers[layer_idx][1]]]
    /\ layer_idx' = layer_idx + 1
    /\ pc' = "generate"
    /\ ret' = "layers"
    /\ UNCHANGED strategyVars
    /\ UNCHANGED sliceVars
    /\ UNCHANGED <<config, entry, depth_z, depth_cut, output, tick, mesh, result>>

\* the loop over the layers is over: the fallback, where the arm has one and
\* `all` is empty, slices 0.01 mm above the bottom of the mesh
StlFallback ==
    /\ pc = "layers"
    /\ layer_idx > Len(layers)
    /\ IF HasFallback(entry, config.strategy) /\ toolpaths = <<>>
       THEN /\ args' = [kind     |-> config.strategy,
                        contours |-> slice_at_z(mesh, FallbackZ(mesh)),
                        p        |-> params]
            /\ pc' = "generate"
            /\ ret' = "built"
       ELSE /\ pc' = "built"
            /\ UNCHANGED <<args, ret>>
    /\ UNCHANGED strategyVars
    /\ UNCHANGED sliceVars
    /\ UNCHANGED <<config, entry, depth_z, depth_cut, output, tick, layer_idx, mesh, result>>

\* all.extend(strategy.generate(contours, &p))
CallGenerate ==
    /\ pc = "generate"
    /\ toolpaths' = toolpaths \o Generate(args.kind, args.contours, args.p)
    /\ pc' = ret
    /\ UNCHANGED <<contours, mesh, params, scan_direction, strategy>>
    /\ UNCHANGED sliceVars
    /\ UNCHANGED <<config, entry, depth_z, depth_cut, output, tick, layer_idx, ret>>
    /\ UNCHANGED pureVars

\* the 2-D entry points up to the depth loop
SvgStart ==
    /\ pc = "start"
    /\ entry \in SvgEntries
    /\ params' = FacadeCutParams(config)
    /\ depth_z' = 0
    /\ pc' = "depth"
    /\ UNCHANGED <<contours, mesh, scan_direction, strategy, toolpaths>>
    /\ UNCHANGED sliceVars
    /\ UNCHANGED <<config, entry, depth_cut, output, tick, layer_idx, ret>>
    /\ UNCHANGED pureVars

\* one iteration of the depth loop up to the strategy call; the `break` after
\* the call is where the call returns to
SvgLayer ==
    /\ pc = "depth"
    /\ DepthContinues(depth_z, config)
    /\ LET z == NextDepth(depth_z, config)
       IN  /\ depth_z' = z
           /\ depth_cut' = <<z>>
           /\ args' = [kind     |-> config.strategy,
                       contours |-> contours,
                       p        |-> [params EXCEPT !.cut_z = z]]
           /\ ret' = IF DepthBreaks(z, config) THEN "built" ELSE "depth"
    /\ pc' = "generate"
    /\ tick' = 1 - tick
    /\ UNCHANGED strategyVars
    /\ UNCHANGED sliceVars
    /\ UNCHANGED <<config, entry, output, layer_idx, mesh, result>>

\* the test of the depth loop fails
SvgExit ==
    /\ pc = "depth"
    /\ ~DepthContinues(depth_z, config)
    /\ pc' = "built"
    /\ UNCHANGED strategyVars
    /\ UNCHANGED sliceVars
    /\ UNCHANGED <<config, entry, depth_z, depth_cut, output, tick, layer_idx, ret, mesh>>
    /\ UNCHANGED pureVars

\* Ok(emit_gcode(&toolpaths, &gcode_params))
Emit ==
    /\ pc = "built"
    /\ entry \in {"process_stl", "process_svg"}
    /\ output' = emit_gcode(toolpaths, GcodeParams(config), Hundredth(entry))
    /\ pc' = "done"
    /\ UNCHANGED strategyVars
    /\ UNCHANGED sliceVars
    /\ UNCHANGED <<config, entry, depth_z, depth_cut, tick, layer_idx, ret, mesh>>
    /\ UNCHANGED pureVars

\* flatten_moves(&toolpaths)
Flatten ==
    /\ pc = "built"
    /\ entry \in {"sim_moves_stl", "sim_moves_svg"}
    /\ output' = flatten_moves(toolpaths)
    /\ pc' = "done"
    /\ UNCHANGED strategyVars
    /\ UNCHANGED sliceVars
    /\ UNCHANGED <<config, entry, depth_z, depth_cut, tick, layer_idx, ret, mesh>>
    /\ UNCHANGED pureVars

\* the preview paths of preview_stl
Preview ==
    /\ pc = "built"
    /\ entry = "preview_stl"
    /\ output' = preview_paths(toolpaths)
    /\ pc' = "done"
    /\ UNCHANGED strategyVars
    /\ UNCHANGED sliceVars
    /\ UNCHANGED <<config, entry, depth_z, depth_cut, tick, layer_idx, ret, mesh>>
    /\ UNCHANGED pureVars

NextFacade ==
    \/ StlStart \/ SliceStart \/ SliceLayer \/ SliceReturn
    \/ StlSurface \/ StlLoop \/ StlLayer \/ StlFallback \/ CallGenerate
    \/ SvgStart \/ SvgLayer \/ SvgExit
    \/ Emit \/ Flatten \/ Preview

SpecFacade == InitFacade /\ [][NextFacade]_vars

\* where the control of the entry point is: every step of NextFacade changes it
Position == <<pc, slice_pc, tick>>

\* a step of an entry point that has not returned
Advance ==
    /\ pc # "done"
    /\ pc' \in {"slicing", "surface", "layers", "generate", "depth", "built", "done"}
    /\ slice_pc' \in {"idle", "loop", "done"}
    /\ tick' \in {0, 1}
    /\ Position' # Position

\* an entry point is a sequential program: until it returns it keeps taking steps
SpecFacadeFair == SpecFacade /\ WF_Position(Advance)

---------------------------------------------------------------------------
(* Calls of a pure function on arguments drawn from bounded sets *)

\* the components of the normals: 1000 and 707 are 1 and sin 45 of a unit
\* vector, 1 is a short normal
\* the calls: normals with components in thousandths (unit and non-unit
\* lengths, the zero vector), radii in grid units
BallEndArgs ==
    LET comp == {-1000, -707, 0, 707, 1000, 2000}
    IN  {[normal |-> Vec3(x, y, z), radius |-> r] :
            x \in comp, y \in comp, z \in comp, r \in {0, 150, 300}}

InitPure ==
    /\ args \in BallEndArgs
    /\ result = <<>>
    /\ contours = <<>>
    /\ mesh = EmptyMesh
    /\ params = CutParams_default
    /\ scan_direction = "X"
    /\ strategy = "none"
    /\ toolpaths = <<>>
    /\ NoSlice
    /\ NoFacade

BallEndOffset ==
    /\ result = <<>>
    /\ result' = <<ball_end_offset(args.normal, args.radius)>>
    /\ UNCHANGED args
    /\ UNCHANGED <<contours, mesh, params, scan_direction, strategy, toolpaths>>
    /\ UNCHANGED sliceVars
    /\ UNCHANGED facadeVars

SpecPure == InitPure /\ [][BallEndOffset]_vars

---------------------------------------------------------------------------
(* Single calls of the helper functions, one call per behaviour: the        *)
(* arguments are in `args`, the action of the function stores what the call *)
(* returns in `result`                                                      *)

\* the lists of at most n segments between the points of P (degenerate
\* segments, repeated segments and both orientations included)
RECURSIVE SegmentLists(_, _)
SegmentLists(P, n) ==
    IF n = 0 THEN {<<>>}
    ELSE LET shorter == SegmentLists(P, n - 1)
         IN  shorter \cup {Append(l, Segment2(a, b)) : l \in shorter, a \in P, b \in P}

\* the calls: scanline_intersect(poly, y) at every 0.5 mm from below to above
\* the contours; chain_segments(segments) for the short lists over three
\* points, for a square loop given out of order and with mixed orientations
\* followed by a loose segment, and for a figure of eight through (10, 10);
\* intersect_triangle_z(a, b, c, z) for the triangles, those of zero area
\* included, over twelve points whose edges cross the plane z = 0 at grid points
CallArgs ==
    LET polys  == {Square, SquareCW, Hourglass, TriangleLoop, OpenPath, ReturnPath,
                   OnePoint}
        square == <<Segment2(Vec2(0, 0), Vec2(20, 0)), Segment2(Vec2(20, 20), Vec2(0, 20)),
                    Segment2(Vec2(20, 20), Vec2(20, 0)), Segment2(Vec2(0, 20), Vec2(0, 0)),
                    Segment2(Vec2(40, 40), Vec2(50, 40))>>
        eight  == <<Segment2(Vec2(10, 10), Vec2(0, 0)), Segment2(Vec2(0, 0), Vec2(0, 10)),
                    Segment2(Vec2(0, 10), Vec2(10, 10)), Segment2(Vec2(10, 10), Vec2(20, 10)),
                    Segment2(Vec2(20, 10), Vec2(20, 20)), Segment2(Vec2(20, 20), Vec2(10, 10))>>
        short  == SegmentLists({Vec2(0, 0), Vec2(10, 0), Vec2(0, 10)}, MaxSegments)
        P      == {Vec3(xy[1], xy[2], z) :
                      xy \in {<<0, 0>>, <<20, 0>>, <<40, 0>>, <<0, 20>>}, z \in {-10, 0, 10}}
    IN  {[fn |-> "scanline_intersect", poly |-> c, y |-> 50 * k] :
            c \in polys, k \in -1..21}
        \cup {[fn |-> "chain_segments", segments |-> l] : l \in short \cup {square, eight}}
        \cup {[fn |-> "intersect_triangle_z", a |-> a, b |-> b, c |-> c, z |-> 0] :
                 a \in P, b \in P, c \in P}

InitCalls ==
    /\ args \in CallArgs
    /\ result = <<>>
    /\ contours = <<>>
    /\ mesh = EmptyMesh
    /\ params = CutParams_default
    /\ scan_direction = "X"
    /\ strategy = "none"
    /\ toolpaths = <<>>
    /\ NoSlice
    /\ NoFacade

ScanlineIntersect ==
    /\ args.fn = "scanline_intersect"
    /\ result = <<>>
    /\ result' = <<scanline_intersect(args.poly, args.y)>>
    /\ UNCHANGED args
    /\ UNCHANGED strategyVars
    /\ UNCHANGED mesh
    /\ UNCHANGED sliceVars
    /\ UNCHANGED facadeVars

ChainSegments ==
    /\ args.fn = "chain_segments"
    /\ result = <<>>
    /\ result' = <<chain_segments(args.segments)>>
    /\ UNCHANGED args
    /\ UNCHANGED strategyVars
    /\ UNCHANGED mesh
    /\ UNCHANGED sliceVars
    /\ UNCHANGED facadeVars

IntersectTriangleZ ==
    /\ args.fn = "intersect_triangle_z"
    /\ result = <<>>
    /\ result' = <<intersect_triangle_z(args.a, args.b, args.c, args.z)>>
    /\ UNCHANGED args
    /\ UNCHANGED strategyVars
    /\ UNCHANGED mesh
    /\ UNCHANGED sliceVars
    /\ UNCHANGED facadeVars

NextCalls == ScanlineIntersect \/ ChainSegments \/ IntersectTriangleZ

SpecCalls == InitCalls /\ [][NextCalls]_vars

---------------------------------------------------------------------------
(* Claims about the strategies, checked under Spec *)

Toolpaths == {toolpaths[k] : k \in 1..Len(toolpaths)}

CutsOf(tp) == {tp[i] : i \in {j \in 1..Len(tp) : ~tp[j].rapid}}

\* C1 as stated: every toolpath returned by any strategy, the zig-zag surface
\* strategy included, is non-empty and begins with a rapid.
C1_EveryToolpathStartsRapid ==
    strategy # "none" => \A tp \in Toolpaths : tp # <<>> /\ tp[1].rapid

\* C1, amended: every toolpath of the contour, pocket and perimeter strategies
\* is non-empty and begins with a rapid; every toolpath of the zig-zag surface
\* strategy is non-empty, the first of them begins with a rapid and each later
\* one begins with a cut.
C1_FirstMove ==
    /\ strategy \in {"contour", "pocket", "perimeter"} =>
          \A tp \in Toolpaths : tp # <<>> /\ tp[1].rapid
    /\ strategy = "zigzag" =>
          \A k \in 1..Len(toolpaths) :
              /\ toolpaths[k] # <<>>
              /\ toolpaths[k][1].rapid = (k = 1)

C1_Witness == strategy = "zigzag" /\ Len(toolpaths) >= 2

RECURSIVE C2_NonEmpty(_)
C2_NonEmpty(cs) ==
    IF cs = <<>> THEN <<>>
    ELSE (IF Head(cs).points = <<>> THEN <<>> ELSE <<Head(cs)>>) \o C2_NonEmpty(Tail(cs))

C2_MovesFor(tp, c) ==
    LET op == offset_polyline(c, params.tool_diameter \div 2)
        n  == Len(op)
    IN  /\ Len(tp) = (IF c.closed THEN n + 3 ELSE n + 2)
        /\ tp[1] = Rapid(op[1].x, op[1].y, params.safe_z)
        /\ \A i \in 1..n : tp[1 + i] = Cut(op[i].x, op[i].y, params.cut_z)
        /\ c.closed => tp[n + 2] = Cut(op[1].x, op[1].y, params.cut_z)
        /\ tp[Len(tp)] = Rapid(op[n].x, op[n].y, params.safe_z)

\* C2: the contour strategy emits one toolpath per contour that has a point, in
\* input order: rapid(p0, safe_z), cut(p0) .. cut(p(n-1)) at cut_z, cut(p0) iff
\* the contour is closed, rapid(p(n-1), safe_z); n + 2 moves when open, n + 3
\* when closed; a contour with no points yields no toolpath.
C2_ContourMoves ==
    strategy = "contour" =>
        /\ Len(toolpaths) = Len(C2_NonEmpty(contours))
        /\ \A k \in 1..Len(toolpaths) : C2_MovesFor(toolpaths[k], C2_NonEmpty(contours)[k])

C2_Witness ==
    /\ strategy = "contour"
    /\ contours = <<OpenPath, Square>>
    /\ Len(toolpaths) = 2
    /\ Len(toolpaths[1]) = 5
    /\ Len(toolpaths[2]) = 7

C3_Within(tp, c) ==
    LET b == BoundingBox2(c.points)
        r == params.tool_diameter \div 2
    IN  \A m \in CutsOf(tp) :
            /\ b.min.x + r <= m.x /\ m.x <= b.max.x - r
            /\ b.min.y + r <= m.y /\ m.y <= b.max.y - r

C3_Pocketable(c) == c.closed /\ Len(c.points) >= 3

\* C3: every cut move of a pocket toolpath lies in the bounding rectangle of
\* its (closed, at least 3 points) source contour inset by the tool radius.
C3_PocketCutsInset ==
    strategy = "pocket" =>
        /\ Len(toolpaths) <= Len(contours)
        /\ \A tp \in Toolpaths :
              \E i \in 1..Len(contours) :
                  C3_Pocketable(contours[i]) /\ C3_Within(tp, contours[i])

C3_Witness ==
    /\ strategy = "pocket"
    /\ contours = <<Hourglass>>
    /\ params.tool_diameter = 200
    /\ Len(toolpaths) = 1
    /\ Cardinality(CutsOf(toolpaths[1])) >= 8

\* C4 as stated: for any contour list the perimeter strategy returns exactly
\* max(1, perimeter_passes) toolpaths.
C4_AlwaysNToolpaths ==
    strategy = "perimeter" => Len(toolpaths) = Max(1, params.perimeter_passes)

\* C4, amended: the perimeter strategy returns exactly N = max(1,
\* perimeter_passes) toolpaths when the contour list is not empty and the
\* contour it selects has at least one point, and no toolpath otherwise;
\* perimeter_passes = 0 gives as many toolpaths as perimeter_passes = 1.
C4_PassCount ==
    strategy = "perimeter" =>
        Len(toolpaths) =
            (IF contours = <<>> \/ contours[OuterIndex(contours)].points = <<>>
             THEN 0 ELSE Max(1, params.perimeter_passes))

C4_Witness ==
    /\ strategy = "perimeter"
    /\ params.perimeter_passes = 0
    /\ Len(toolpaths) = 1

MinCutX(tp) == SetMin({m.x : m \in CutsOf(tp)})

C5_SquareRun ==
    strategy = "perimeter" /\ contours = <<Square>> /\ params.step_over > 0

C5_Offset(k) == params.tool_diameter \div 2 + k * params.step_over

C5_PassPoints(c, k) ==
    IF params.climb_cut THEN Reverse(offset_polyline(c, C5_Offset(k)))
    ELSE offset_polyline(c, C5_Offset(k))

C6_SquareRun ==
    strategy = "contour" /\ contours = <<Square>> /\ params.tool_diameter = 200

\* C6 as stated: the first offset vertex of the square lies outside the square,
\* its x and y both below 0.
C6_FirstVertexOutside ==
    C6_SquareRun => toolpaths[1][2].x < 0 /\ toolpaths[1][2].y < 0

C6_Cross(u, v) == u.x * v.y - u.y * v.x

C6_Minus(a, b) == Vec2(a.x - b.x, a.y - b.y)

\* C6, amended: with a positive distance offset_polyline displaces every vertex
\* of a closed loop to the left of its direction of travel (from the previous
\* to the next vertex), which for a counter-clockwise loop is toward the
\* interior, not outward; for the closed square with tool_diameter = 2 under
\* the contour strategy the first offset vertex lies inside the square (x and y
\* both above 0 and below 10 mm).
C6_OffsetLeftOfTravel ==
    /\ (strategy = "contour" /\ Len(contours) = 1 /\ params.tool_diameter > 0
        /\ contours[1].closed /\ Len(contours[1].points) >= 3) =>
          LET pts == contours[1].points
              n   == Len(pts)
          IN  \A i \in 1..n :
                  C6_Cross(C6_Minus(pts[(i % n) + 1], pts[((i + n - 2) % n) + 1]),
                           C6_Minus(toolpaths[1][1 + i], pts[i])) > 0
    /\ C6_SquareRun =>
          /\ toolpaths[1][2].x > 0 /\ toolpaths[1][2].x < 1000
          /\ toolpaths[1][2].y > 0 /\ toolpaths[1][2].y < 1000

C6_Witness == C6_SquareRun /\ toolpaths[1][2] = Cut(70, 70, params.cut_z)

\* the k-th (1-based) row cut of a pocket toolpath: moves 4k-2 (start), 4k-1 (end)
C7_RowCount(tp) == Len(tp) \div 4

C7_Forward(tp, k) == tp[4 * k - 2].x < tp[4 * k - 1].x

C7_RowY(tp, k) == tp[4 * k - 2].y

\* C7 as stated: two successive emitted rows always cut in opposite directions.
C7_EmittedRowsAlternate ==
    strategy = "pocket" =>
        \A tp \in Toolpaths :
            \A k \in 1..(C7_RowCount(tp) - 1) :
                C7_RowY(tp, k) # C7_RowY(tp, k + 1) =>
                    C7_Forward(tp, k) # C7_Forward(tp, k + 1)

C7_ParityOf(tp, c) ==
    LET y_min == BoundingBox2(c.points).min.y + params.tool_diameter \div 2
        step  == Max(params.step_over, StepFloor)
    IN  \A k \in 1..C7_RowCount(tp) :
            /\ (C7_RowY(tp, k) - y_min) % step = 0
            /\ C7_Forward(tp, k) = (((C7_RowY(tp, k) - y_min) \div step) % 2 = 0)

\* C7, amended: the direction of a row's cut is fixed by the index of its scan
\* line counted from the first one (y_min): lower X to higher X on even scan
\* lines, higher X to lower X on odd ones, whether or not the scan lines before
\* it emitted a cut; so two successive emitted rows cut in opposite directions
\* only when an even number of empty scan lines lies between them.
C7_RowParity ==
    strategy = "pocket" =>
        \A tp \in Toolpaths :
            \E i \in 1..Len(contours) :
                C3_Pocketable(contours[i]) /\ C7_ParityOf(tp, contours[i])

C7_Witness ==
    /\ strategy = "pocket"
    /\ contours = <<Hourglass>>
    /\ params.tool_diameter = 200
    /\ params.step_over = 200
    /\ C7_RowCount(toolpaths[1]) = 4
    /\ ~C7_Forward(toolpaths[1], 2)
    /\ ~C7_Forward(toolpaths[1], 3)

---------------------------------------------------------------------------
(* Claims about the slicer, checked under SpecSlicer *)

LayerZ(k) == layers[k][1]

LayerContours(k) == layers[k][2]

\* the pairs <<layer, index>> of all polylines slice_mesh has returned so far
SlicedPolylines ==
    UNION {{<<k, j>> : j \in 1..Len(layers[k][2])} : k \in 1..Len(layers)}

\* C8 as stated: every layer's z lies within the mesh's z extent and consecutive
\* returned layers differ by exactly h.
C8_ConsecutiveDifferByH ==
    \A k \in 1..Len(layers) :
        /\ mesh.bounds[1].min.z <= LayerZ(k) /\ LayerZ(k) <= mesh.bounds[1].max.z
        /\ k < Len(layers) => LayerZ(k + 1) - LayerZ(k) = layer_height

\* C8, amended: every returned layer has contours, its z lies within the
\* mesh's z extent and is zmin + h/2 + i*h for a whole i >= 0, and the z values
\* of consecutive returned layers are ascending and differ by a positive whole
\* multiple of h (by exactly h only when no empty, omitted layer lies between).
C8_LayerSchedule ==
    \A k \in 1..Len(layers) :
        /\ LayerContours(k) # <<>>
        /\ mesh.bounds[1].min.z <= LayerZ(k) /\ LayerZ(k) <= mesh.bounds[1].max.z
        /\ LayerZ(k) >= mesh.bounds[1].min.z + layer_height \div 2
        /\ (LayerZ(k) - mesh.bounds[1].min.z - layer_height \div 2) % layer_height = 0
        /\ k < Len(layers) =>
              /\ LayerZ(k + 1) > LayerZ(k)
              /\ (LayerZ(k + 1) - LayerZ(k)) % layer_height = 0

C8_Witness ==
    /\ slice_pc = "done"
    /\ mesh = TwoBodiesMesh
    /\ Len(layers) = 2
    /\ LayerZ(2) - LayerZ(1) = 3 * layer_height

\* C9 as stated: in every closed polyline the chainer returns, the first and the
\* last stored point are within eps of each other.
C9_StoredEndsCoincide ==
    \A kj \in SlicedPolylines :
        LET pl == layers[kj[1]][2][kj[2]]
        IN  pl.closed => Near(pl.points[1], pl.points[Len(pl.points)])

\* C9, amended: a polyline is returned closed only if its chain had more than
\* two points and ended within eps of its first point; that duplicate closing
\* point is removed, so the stored polyline is the chain without its last
\* point, has at least two points, and its closing edge is implicit.
C9_ClosingPointRemoved ==
    \A kj \in SlicedPolylines :
        LET pl    == layers[kj[1]][2][kj[2]]
            chain == chains[kj[1]][kj[2]]
        IN  pl.closed =>
                /\ Len(chain) > 2
                /\ Near(chain[1], chain[Len(chain)])
                /\ pl.points = SubSeq(chain, 1, Len(chain) - 1)
                /\ Len(pl.points) >= 2

C9_Witness ==
    /\ mesh = TetraMesh
    /\ Len(layers) >= 1
    /\ LayerContours(1)[1].closed
    /\ Len(LayerContours(1)[1].points) = 3

\* C10 as stated: every polyline slice_at_z returns is marked closed.
C10_AllClosed ==
    \A kj \in SlicedPolylines : layers[kj[1]][2][kj[2]].closed

\* C10, what the code does instead: a polyline is marked closed exactly when
\* its chain has more than two points and ends within eps of its first point;
\* every other chain is returned as an open polyline holding all the chain's
\* points, at least two.
C10_ClosedIffChainReturns ==
    \A kj \in SlicedPolylines :
        LET pl    == layers[kj[1]][2][kj[2]]
            chain == chains[kj[1]][kj[2]]
        IN  /\ pl.closed = (Len(chain) > 2 /\ Near(chain[1], chain[Len(chain)]))
            /\ ~pl.closed => (pl.points = chain /\ Len(pl.points) >= 2)

---------------------------------------------------------------------------
(* Claims about the entry points of lib.rs, checked under SpecFacade *)

\* the entry point has built its toolpath list
Built == pc \in {"built", "done"}

\* every triangle of a non-empty mesh is horizontal
AllHorizontal(m) ==
    /\ m.triangles # <<>>
    /\ \A i \in 1..Len(m.triangles) : min_z(m.triangles[i]) = max_z(m.triangles[i])

\* C11 as stated: for a mesh whose every triangle is horizontal and strategy
\* contour, the fallback of process_stl produces at least one toolpath, whose
\* cuts are at z = cut_depth.
C11_FallbackOnHorizontalMesh ==
    (/\ entry = "process_stl"
     /\ config.strategy = "contour"
     /\ AllHorizontal(mesh)
     /\ Built)
    => /\ toolpaths # <<>>
       /\ \A tp \in Toolpaths : \A mv \in CutsOf(tp) : mv.z = config.cut_depth

\* the 2-D runs C12 is about: cut_depth <= 0 and step_down > 0
C12_Run == entry \in SvgEntries /\ config.cut_depth <= 0 /\ config.step_down > 0

\* C12 as stated: the depth loop runs the strategy at a layer whose cut_z is
\* exactly cut_depth, and that layer is the last one.
C12_LastLayerAtCutDepth ==
    (C12_Run /\ Built) => depth_cut = <<config.cut_depth>>

\* C12, amended: the depth loop runs the strategy only at layers with
\* cut_z >= cut_depth; it stops immediately after the first layer whose cut_z
\* is within 0.001 of cut_depth (cut_depth <= cut_z < cut_depth + 0.001) and
\* after no other layer, so that layer is the last one; its cut_z is exactly
\* cut_depth only when the steps land on cut_depth or are clamped to it.
C12_LastLayerNearCutDepth ==
    C12_Run =>
        /\ depth_cut # <<>> => depth_cut[1] >= config.cut_depth
        /\ Built => /\ depth_cut # <<>>
                    /\ depth_cut[1] < config.cut_depth + DepthTol
        /\ pc = "generate" => (ret = "built") = (depth_cut[1] < config.cut_depth + DepthTol)
        /\ (pc = "depth" /\ depth_cut # <<>>) =>
              depth_cut[1] >= config.cut_depth + DepthTol

C12_Witness ==
    /\ C12_Run
    /\ pc = "done"
    /\ config.cut_depth = -10000
    /\ depth_cut = <<-9999>>

\* C13 as stated: every pipeline run terminates, step_down <= 0 included.
C13_EveryRunTerminates == <>(pc = "done")

\* the op words of the lines of a G-code program
Ops(lines) == [i \in 1..Len(lines) |-> lines[i].op]

\* C15: for a mesh with no triangles slice_mesh returns no layer, every
\* strategy label of the 3-D entry points builds an empty toolpath list, and
\* the G-code of process_stl is the six preamble lines followed by the four
\* footer lines, with no toolpath section.
C15_EmptyMesh ==
    (entry \in StlEntries /\ mesh = EmptyMesh) =>
        /\ layers = <<>>
        /\ toolpaths = <<>>
        /\ (entry = "process_stl" /\ pc = "done") =>
              /\ Ops(output) = <<"comment", "G21", "G90", "G0", "M3", "blank",
                                 "G0", "M5", "G0", "M2">>
              /\ output[1] = [op |-> "comment", text |-> "RustCAM - generated G-code"]
              /\ output[4].z = config.safe_z
              /\ output[7].z = config.safe_z
              /\ output[9] = [op |-> "G0", x |-> 0, y |-> 0]

C15_Witness ==
    /\ entry = "process_stl"
    /\ mesh = EmptyMesh
    /\ config.strategy = "contour"
    /\ slice_pc = "done"
    /\ pc = "done"
    /\ Len(output) = 10

---------------------------------------------------------------------------
(* Claims about ball_end_offset, checked under SpecPure *)

\* the squared length of the normal of the call
NormSq == args.normal.x * args.normal.x + args.normal.y * args.normal.y
              + args.normal.z * args.normal.z

\* the length of the normal of the call, rounded down to the grid
NormLen == CHOOSE l \in 0..3500 : l * l <= NormSq /\ NormSq < (l + 1) * (l + 1)

\* C16: ball_end_offset(normal, R) returns (R*nx, R*ny, R*(1 - nz)) for the
\* normal divided by its length (each component within one grid unit, rounded
\* toward zero); for a normal along +z it returns (0,0,0) for every R, and for
\* a normal of length zero it returns (0,0,0).
C16_BallEndOffset ==
    result # <<>> =>
        LET d == result[1]
            n == args.normal
            R == args.radius
        IN  /\ NormSq = 0 => d = <<0, 0, 0>>
            /\ (n.x = 0 /\ n.y = 0 /\ n.z > 0) => d = <<0, 0, 0>>
            /\ NormSq > 0 =>
                  /\ Abs(d[1] * NormLen - R * n.x) < NormLen
                  /\ Abs(d[2] * NormLen - R * n.y) < NormLen
                  /\ Abs((R - d[3]) * NormLen - R * n.z) < NormLen
                  /\ d[1] * n.x >= 0
                  /\ d[2] * n.y >= 0
                  /\ d[3] >= 0

C16_Witness ==
    /\ args = [normal |-> Vec3(0, -707, 707), radius |-> 300]
    /\ result = <<<<0, -212, 88>>>>

---------------------------------------------------------------------------
(* Claims about generate_surface, checked under Spec *)

\* the sample rows of the call the Zigzag action made
C17_Rows == IF mesh.bounds = <<>> THEN <<>> ELSE SurfaceRows(mesh, params, scan_direction)

\* the positions <<k, i>> of the rapids of the toolpath list
RapidPositions ==
    UNION {{<<k, i>> : i \in {j \in 1..Len(toolpaths[k]) : toolpaths[k][j].rapid}} :
              k \in 1..Len(toolpaths)}

\* C17: generate_surface emits one toolpath per non-empty sample row, in row
\* order; the first begins rapid(p0, safe_z), cut(p0); every later one begins
\* with a cut to the previous row's last sample followed by a cut to its own
\* first sample; the samples of the row follow as cuts; only the last toolpath
\* ends with a rapid, above its last sample at safe_z; the output holds exactly
\* two rapids when there is a row.
C17_OneToolpathPerRow ==
    strategy = "zigzag" =>
        LET rows == C17_Rows
            P(s) == <<s[1], s[2], s[3]>>
            At(mv) == <<mv.x, mv.y, mv.z>>
        IN  /\ \A r \in 1..Len(rows) : rows[r] # <<>>
            /\ Len(toolpaths) = Len(rows)
            /\ \A k \in 1..Len(toolpaths) :
                  LET tp  == toolpaths[k]
                      row == rows[k]
                      n   == Len(row)
                  IN  /\ Len(tp) = n + 1 + (IF k = Len(toolpaths) THEN 1 ELSE 0)
                      /\ IF k = 1
                         THEN tp[1] = Rapid(row[1][1], row[1][2], params.safe_z)
                         ELSE /\ ~tp[1].rapid
                              /\ At(tp[1]) = P(rows[k - 1][Len(rows[k - 1])])
                      /\ \A i \in 1..n : ~tp[i + 1].rapid /\ At(tp[i + 1]) = P(row[i])
                      /\ k = Len(toolpaths) =>
                            tp[n + 2] = Rapid(row[n][1], row[n][2], params.safe_z)
            /\ rows # <<>> => Cardinality(RapidPositions) = 2
            /\ rows = <<>> => toolpaths = <<>>

C17_Witness ==
    /\ strategy = "zigzag"
    /\ Len(toolpaths) >= 3
    /\ ~toolpaths[2][1].rapid
    /\ Len(toolpaths[2]) >= 3
    /\ toolpaths[Len(toolpaths)][Len(toolpaths[Len(toolpaths)])].rapid

---------------------------------------------------------------------------
(* Further claims about the entry points of lib.rs, checked under SpecFacade *)

\* C18 as stated: the labels "slice" and "contour" are synonyms: process_stl
\* under strategy "slice" builds the toolpath list that strategy "contour"
\* builds from the same mesh and configuration.
C18_SliceEqualsContour ==
    (entry = "process_stl" /\ config.strategy = "slice" /\ Built) =>
        toolpaths = process_stl_toolpaths("contour", mesh, layers, params)

\* the run has emitted its G-code
Emitted == entry \in {"process_stl", "process_svg"} /\ pc = "done"

\* line i of the G-code is a cut below safe_z by more than 0.01
CutBelowSafeZ(i) ==
    output[i].op = "G1" /\ output[i].z < config.safe_z - Hundredth(entry)

\* C19 as stated: a cut move is emitted with the plunge rate exactly when its
\* z is below safe_z by more than 0.01 and the previous move of the same
\* toolpath was a rapid; every other cut move is emitted with the feed rate.
C19_PlungeIffAfterRapid ==
    Emitted =>
        \A i \in 1..Len(output) :
            output[i].op = "G1" =>
                output[i].f = IF CutBelowSafeZ(i) /\ output[i - 1].op = "G0"
                              THEN config.plunge_rate ELSE config.feed_rate

\* what emit_gcode does: the first move of a toolpath counts as following a
\* rapid (last_rapid starts true in every toolpath)
C19_PlungeAfterRapidOrFirst ==
    Emitted =>
        \A i \in 1..Len(output) :
            output[i].op = "G1" =>
                output[i].f = IF CutBelowSafeZ(i) /\ output[i - 1].op \in {"G0", "comment"}
                              THEN config.plunge_rate ELSE config.feed_rate

\* C20: in every CutParams value built by CutParams::default (the value before
\* the entry point builds its own) or by the entry points of lib.rs, for every
\* tool_type string, the cached tool_diameter equals tool.diameter; the
\* parameters handed to a strategy keep the two equal.
C20_ToolDiameterInSync ==
    /\ CutParams_default.tool_diameter = CutParams_default.tool.diameter
    /\ params.tool_diameter = params.tool.diameter
    /\ pc # "start" => params.tool_diameter = config.tool_diameter
    /\ pc = "generate" => args.p.tool_diameter = args.p.tool.diameter

C20_Witness ==
    /\ pc = "done"
    /\ config.tool_type = "face_mill"
    /\ params.tool.tool_type = "FaceMill"
    /\ params.tool.effective_diameter = <<6>>
    /\ params.tool_diameter = 10
    /\ toolpaths # <<>>

\* C24 as stated: build_toolpaths_stl, which feeds preview_stl and
\* sim_moves_stl, builds the toolpath list that process_stl builds from the
\* same mesh and configuration, for every strategy label.
C24_PreviewEqualsGcode ==
    (entry \in {"preview_stl", "sim_moves_stl"} /\ Built) =>
        toolpaths = process_stl_toolpaths(config.strategy, mesh, layers, params)

---------------------------------------------------------------------------
(* Further claims about the strategies, checked under Spec *)

\* the contour the perimeter strategy machines
OuterContour == contours[OuterIndex(contours)]

\* the offset points a perimeter toolpath follows, read back from its moves:
\* the cuts after the entry rapid, without the closing cut of a closed contour
FollowedPoints(tp, closed) ==
    [i \in 1..(Len(tp) - 2 - (IF closed THEN 1 ELSE 0)) |-> Vec2(tp[i + 1].x, tp[i + 1].y)]

\* the toolpaths of the same call with climb_cut inverted
OtherDirection ==
    PerimeterStrategy_generate(contours, [params EXCEPT !.climb_cut = ~params.climb_cut])

\* the points of a sequence, as a set
Range(s) == {s[i] : i \in 1..Len(s)}

\* the runs C21 is about: a perimeter call that returned toolpaths
C21_Run == strategy = "perimeter" /\ toolpaths # <<>>

\* C21, the reversal alone: pass by pass, the offset points followed with
\* climb_cut = true are those followed with climb_cut = false in reverse order.
C21_PassesReversed ==
    C21_Run =>
        /\ Len(OtherDirection) = Len(toolpaths)
        /\ \A k \in 1..Len(toolpaths) :
              FollowedPoints(toolpaths[k], OuterContour.closed)
                  = Reverse(FollowedPoints(OtherDirection[k], OuterContour.closed))

\* C21 as stated: the passes are reversed and, for a contour with more than
\* one distinct offset point, the two directions start at different points.
C21_ReversedAndStartsDiffer ==
    /\ C21_PassesReversed
    /\ C21_Run =>
          \A k \in 1..Len(toolpaths) :
              Cardinality(Range(FollowedPoints(toolpaths[k], OuterContour.closed))) > 1
                  => toolpaths[k][1] # OtherDirection[k][1]

\* C21, amended: the passes are reversed, each direction starts above the
\* other's last offset point, and the two start at different points exactly
\* when the first and the last offset point of the pass differ.
C21_ReversedStartsAtOtherEnd ==
    /\ C21_PassesReversed
    /\ C21_Run =>
          \A k \in 1..Len(toolpaths) :
              LET mine  == FollowedPoints(toolpaths[k], OuterContour.closed)
                  other == FollowedPoints(OtherDirection[k], OuterContour.closed)
              IN  /\ toolpaths[k][1] = Rapid(other[Len(other)].x, other[Len(other)].y,
                                             params.safe_z)
                  /\ (toolpaths[k][1] # OtherDirection[k][1]) = (mine[1] # mine[Len(mine)])

C21_Witness ==
    /\ strategy = "perimeter"
    /\ params.climb_cut
    /\ contours = <<Square>>
    /\ Len(toolpaths) >= 2
    /\ toolpaths[1][1] # OtherDirection[1][1]

\* twice the signed area of the triangle (a, b, (x, y)) in the XY plane
Cross(a, b, x, y) == (b.x - a.x) * (y - a.y) - (b.y - a.y) * (x - a.x)

\* (x, y) lies inside or on the boundary of the XY projection of triangle t
InsideXY(t, x, y) ==
    LET c0 == Cross(t.v0, t.v1, x, y)
        c1 == Cross(t.v1, t.v2, x, y)
        c2 == Cross(t.v2, t.v0, x, y)
    IN  \/ (c0 >= 0 /\ c1 >= 0 /\ c2 >= 0)
        \/ (c0 <= 0 /\ c1 <= 0 /\ c2 <= 0)

\* the (x, y) of the cut moves of the toolpath list
CutPositions ==
    UNION {{<<mv.x, mv.y>> : mv \in CutsOf(toolpaths[k])} : k \in 1..Len(toolpaths)}

\* the grid of the scan: rows (or columns) step apart, samples step apart and
\* clamped to the far bound
ScanGrid ==
    LET b    == mesh.bounds[1]
        step == Max(params.step_over, StepFloor)
        xs   == {Min(b.min.x + i * step, b.max.x) : i \in 0..((b.max.x - b.min.x) \div step + 1)}
        ys   == {Min(b.min.y + i * step, b.max.y) : i \in 0..((b.max.y - b.min.y) \div step + 1)}
        rowX == {b.min.x + i * step : i \in 0..((b.max.x - b.min.x) \div step)}
        rowY == {b.min.y + i * step : i \in 0..((b.max.y - b.min.y) \div step)}
    IN  IF scan_direction = "X" THEN xs \X rowY ELSE rowX \X ys

\* the runs C22 is about
C22_Run ==
    /\ strategy = "zigzag"
    /\ Len(mesh.triangles) = 1
    /\ params.tool.tool_type # "BallEnd"

\* C22: for a single-triangle mesh and a tool that is not a ball-end mill,
\* generate_surface cuts exactly at the grid points that lie inside or on the
\* boundary of the triangle's XY projection: a grid point outside it produces
\* no move, and every cut stays within the XY bounds of the mesh.
C22_CutsInsideTriangle ==
    C22_Run =>
        LET t == mesh.triangles[1]
            b == mesh.bounds[1]
        IN  /\ \A c \in CutPositions :
                  /\ InsideXY(t, c[1], c[2])
                  /\ b.min.x <= c[1] /\ c[1] <= b.max.x
                  /\ b.min.y <= c[2] /\ c[2] <= b.max.y
            /\ CutPositions = {g \in ScanGrid : InsideXY(t, g[1], g[2])}

C22_Witness ==
    /\ C22_Run
    /\ mesh = FlatTriangleMesh
    /\ <<0, 20>> \in ScanGrid
    /\ <<0, 20>> \notin CutPositions
    /\ <<20, 20>> \in CutPositions

---------------------------------------------------------------------------
(* Claims about single calls of the helper functions, checked under SpecCalls *)

\* the edges (a, b) of the polyline of the call, the closing edge included
ScanEdgeSet ==
    LET pts == args.poly.points
    IN  {i \in 1..Len(pts) :
            LET a == pts[i]
                b == pts[(i % Len(pts)) + 1]
            IN  (a.y <= args.y /\ args.y < b.y) \/ (b.y <= args.y /\ args.y < a.y)}

\* C23: scanline_intersect returns one intersection for each edge from a to b
\* with a.y <= y < b.y or b.y <= y < a.y and for no other edge; for a closed
\* polyline with at least 3 points the number of intersections is even at
\* every height, a vertex's height and the height of a horizontal edge
\* included.
C23_HalfOpenParity ==
    (args.fn = "scanline_intersect" /\ result # <<>>) =>
        /\ Len(args.poly.points) >= 2 => Len(result[1]) = Cardinality(ScanEdgeSet)
        /\ Len(args.poly.points) < 2 => result[1] = <<>>
        /\ (args.poly.closed /\ Len(args.poly.points) >= 3) => Len(result[1]) % 2 = 0

\* a scanline through a vertex of the hourglass (its waist) and one along the
\* bottom edge of the square
C23_Witness ==
    /\ args.fn = "scanline_intersect"
    /\ result # <<>>
    /\ \/ args.poly = Hourglass /\ args.y = 500 /\ Len(result[1]) = 2
       \/ args.poly = Square /\ args.y = 0 /\ Len(result[1]) = 2

\* the number of input segments a returned polyline accounts for
SegmentsOf(pl) == IF pl.closed THEN Len(pl.points) ELSE Len(pl.points) - 1

RECURSIVE SumSegments(_)
SumSegments(pls) == IF pls = <<>> THEN 0 ELSE SegmentsOf(Head(pls)) + SumSegments(Tail(pls))

\* the edges of a returned polyline, the closing edge of a closed one included
EdgesOf(pl) ==
    [i \in 1..SegmentsOf(pl) |->
        Segment2(pl.points[i], pl.points[(i % Len(pl.points)) + 1])]

RECURSIVE AllEdges(_)
AllEdges(pls) == IF pls = <<>> THEN <<>> ELSE EdgesOf(Head(pls)) \o AllEdges(Tail(pls))

\* how many segments of the list join p and q, in either orientation
Joining(segs, p, q) ==
    Cardinality({i \in 1..Len(segs) :
        (segs[i].a = p /\ segs[i].b = q) \/ (segs[i].a = q /\ segs[i].b = p)})

\* the end points of the segments of a list
EndPoints(segs) == {segs[i].a : i \in 1..Len(segs)} \cup {segs[i].b : i \in 1..Len(segs)}

\* C25: chain_segments returns, and uses every input segment in exactly one
\* output polyline, exactly once: the edges of the output polylines are the
\* input segments, each as often as it was given; summing m - 1 for an open
\* polyline with m stored points and m for a closed one gives the number of
\* input segments; no output polyline is empty.
C25_EverySegmentOnce ==
    (args.fn = "chain_segments" /\ result # <<>>) =>
        LET pls == result[1]
            P   == EndPoints(args.segments)
        IN  /\ SumSegments(pls) = Len(args.segments)
            /\ \A k \in 1..Len(pls) : pls[k].points # <<>> /\ SegmentsOf(pls[k]) >= 1
            /\ \A p \in P : \A q \in P :
                  Joining(AllEdges(pls), p, q) = Joining(args.segments, p, q)
            /\ EndPoints(AllEdges(pls)) \subseteq P

\* the square loop closes into one closed polyline of four points and leaves
\* the loose segment as an open one
C25_Witness ==
    /\ args.fn = "chain_segments"
    /\ Len(args.segments) = 5
    /\ args.segments[5] = Segment2(Vec2(40, 40), Vec2(50, 40))
    /\ result # <<>>
    /\ Len(result[1]) = 2
    /\ result[1][1].closed /\ Len(result[1][1].points) = 4
    /\ ~result[1][2].closed /\ Len(result[1][2].points) = 2

---------------------------------------------------------------------------
(* Claims about the loop over the layers of the 3-D pipelines, checked     *)
(* under SpecFacade                                                        *)

SlicedLabels == {"contour", "slice", "pocket", "perimeter"}

CutHeights(tps) ==
    UNION {{m.z : m \in CutsOf(tps[k])} : k \in 1..Len(tps)}

\* while the loop over the layers runs, and when it is over: the layers are in
\* strictly ascending z, a toolpath never cuts lower than an earlier one, and
\* every cut is at the z of a layer the loop has visited
C26_LayerOrder ==
    (entry \in StlEntries /\ pc \in {"layers", "generate"} /\ ret # "built") =>
        /\ \A k \in 1..(Len(layers) - 1) : layers[k][1] < layers[k + 1][1]
        /\ \A i \in 1..Len(toolpaths) : \A j \in i..Len(toolpaths) :
              \A a \in CutsOf(toolpaths[i]) : \A b \in CutsOf(toolpaths[j]) :
                  a.z <= b.z
        /\ CutHeights(toolpaths) \subseteq {layers[k][1] : k \in 1..(layer_idx - 1)}

\* the strategy call of a layer: its parameters are the pipeline's with cut_z
\* replaced by the layer's z, its toolpaths are appended to those of the
\* earlier layers, and every cut of them is at the layer's z
C26_LayerCall ==
    (pc = "generate" /\ ret = "layers" /\ pc' = "layers") =>
        LET z == layers[layer_idx - 1][1]
        IN  /\ args.kind \in SlicedLabels
            /\ args.contours = layers[layer_idx - 1][2]
            /\ args.p = [params EXCEPT !.cut_z = z]
            /\ params' = params
            /\ Len(toolpaths') >= Len(toolpaths)
            /\ SubSeq(toolpaths', 1, Len(toolpaths)) = toolpaths
            /\ \A k \in (Len(toolpaths) + 1)..Len(toolpaths') :
                  \A m \in CutsOf(toolpaths'[k]) : m.z = z

\* C26: for a 3-D input and a sliced strategy, every cut of the toolpaths
\* generated for a layer is at that layer's z (not at the configured
\* cut_depth), the other cut parameters are the same for all layers, and the
\* toolpaths are concatenated in the slicer's layer order, which is strictly
\* ascending z.
C26_LayerCutZ == []C26_LayerOrder /\ [][C26_LayerCall]_vars

C26_Witness ==
    /\ entry = "process_stl"
    /\ config.strategy = "perimeter"
    /\ pc = "layers"
    /\ layer_idx > Len(layers)
    /\ Len(layers) >= 2
    /\ Cardinality(CutHeights(toolpaths)) >= 2
    /\ config.cut_depth \notin CutHeights(toolpaths)

\* the call of intersect_triangle_z has returned
TriangleDone == args.fn = "intersect_triangle_z" /\ result # <<>>

\* the vertices of the triangle of the call, split by their side of the plane
VertsOnPlane == {i \in 1..3 : <<args.a, args.b, args.c>>[i].z = args.z}

VertsBelow == {i \in 1..3 : <<args.a, args.b, args.c>>[i].z < args.z}

VertsAbove == {i \in 1..3 : <<args.a, args.b, args.c>>[i].z > args.z}

\* exactly one vertex on the plane and the other two strictly on one side
Tangent ==
    /\ Cardinality(VertsOnPlane) = 1
    /\ Cardinality(VertsBelow) = 2 \/ Cardinality(VertsAbove) = 2

\* exactly one vertex on the plane and the other two strictly on opposite sides
Straddles ==
    /\ Cardinality(VertsOnPlane) = 1
    /\ Cardinality(VertsBelow) = 1
    /\ Cardinality(VertsAbove) = 1

\* the vertex on the plane, in XY
PlaneVertex ==
    LET v == <<args.a, args.b, args.c>>[CHOOSE i \in VertsOnPlane : TRUE]
    IN  Vec2(v.x, v.y)

\* where the edge between the vertex below and the vertex above meets the
\* plane, in XY, and whether that point is a grid point
OppositeCrossing ==
    LET p == <<args.a, args.b, args.c>>[CHOOSE i \in VertsBelow : TRUE]
        q == <<args.a, args.b, args.c>>[CHOOSE i \in VertsAbove : TRUE]
    IN  Vec2(p.x + ((q.x - p.x) * (args.z - p.z)) \div (q.z - p.z),
             p.y + ((q.y - p.y) * (args.z - p.z)) \div (q.z - p.z))

CrossingOnGrid ==
    LET p == <<args.a, args.b, args.c>>[CHOOSE i \in VertsBelow : TRUE]
        q == <<args.a, args.b, args.c>>[CHOOSE i \in VertsAbove : TRUE]
    IN  /\ ((q.x - p.x) * (args.z - p.z)) % (q.z - p.z) = 0
        /\ ((q.y - p.y) * (args.z - p.z)) % (q.z - p.z) = 0

Ends(seg) == {seg.a, seg.b}

\* C27, as stated: at most one segment; none for a triangle that touches the
\* plane with one vertex; the segment joining the vertex and the crossing point
\* of the opposite edge for a triangle with one vertex on the plane and the
\* other two strictly on opposite sides.
C27_VertexOnPlane ==
    TriangleDone =>
        LET r == result[1]
        IN  /\ Len(r) <= 1
            /\ Tangent => r = <<>>
            /\ Straddles =>
                  /\ Len(r) = 1
                  /\ Ends(r[1]) = {PlaneVertex, OppositeCrossing}

\* C27, amended: as above, but a triangle with one vertex on the plane and the
\* other two strictly on opposite sides contributes the segment only when the
\* crossing point of the opposite edge differs, in XY, from the vertex; when
\* they coincide (the vertex lies on the opposite edge: a triangle of zero
\* area) it contributes none.  The segment runs in the order of the edges
\* (a, b), (b, c), (c, a): from the vertex when the vertex is a or b, to the
\* vertex when it is c.
C27_VertexOnPlaneDistinct ==
    TriangleDone =>
        LET r == result[1]
        IN  /\ Len(r) <= 1
            /\ Tangent => r = <<>>
            /\ (Straddles /\ PlaneVertex # OppositeCrossing) =>
                  r = IF VertsOnPlane = {3}
                      THEN <<Segment2(OppositeCrossing, PlaneVertex)>>
                      ELSE <<Segment2(PlaneVertex, OppositeCrossing)>>
            /\ (Straddles /\ PlaneVertex = OppositeCrossing) => r = <<>>

\* a triangle of non-zero area with its vertex c on the plane has returned its
\* segment, and the crossing points of the calls are grid points
C27_Witness ==
    /\ TriangleDone
    /\ Straddles
    /\ CrossingOnGrid
    /\ VertsOnPlane = {3}
    /\ PlaneVertex # OppositeCrossing
    /\ result[1] = <<Segment2(OppositeCrossing, PlaneVertex)>>

---------------------------------------------------------------------------
(* Claims about the depth loop of the 2-D pipelines, checked under         *)
(* SpecFacade                                                              *)

\* the strategy has been called at some depth
LayerEmitted == depth_cut # <<>>

\* one iteration of the depth loop: the cut_z of its strategy call against
\* that of the call before
C28_Step ==
    (entry \in SvgEntries /\ config.cut_depth < 0 /\ config.step_down > 0
        /\ depth_cut' # depth_cut) =>
        IF ~LayerEmitted
        THEN depth_cut' = <<Max(-config.step_down, config.cut_depth)>>
        ELSE /\ depth_cut'[1] < depth_cut[1]
             /\ \/ depth_cut[1] - depth_cut'[1] = config.step_down
                \/ /\ depth_cut'[1] = config.cut_depth
                   /\ ret' = "built"

\* the cut_z of every strategy call of the depth loop
C28_Range ==
    (entry \in SvgEntries /\ config.cut_depth < 0 /\ config.step_down > 0
        /\ LayerEmitted) =>
        /\ config.cut_depth <= depth_cut[1]
        /\ depth_cut[1] < 0
        /\ pc = "generate" => args.p.cut_z = depth_cut[1]

\* a cut_depth above zero: the strategy is never called
C28_NoneAboveZero ==
    (entry \in SvgEntries /\ config.cut_depth > 0) => ~LayerEmitted

\* C28 as stated: for cut_depth < 0 and step_down > 0 the cut_z values of the
\* depth loop start at max(-step_down, cut_depth), decrease strictly by
\* step_down except for a last one clamped to cut_depth, and lie in
\* cut_depth <= z < 0; for cut_depth > 0 no layer is emitted.
C28_DepthSchedule ==
    /\ []C28_Range
    /\ [][C28_Step]_vars
    /\ []C28_NoneAboveZero

\* what the depth loop does for a cut_depth above zero
C28_AboveZero ==
    (entry \in SvgEntries /\ config.cut_depth > 0) =>
        /\ config.cut_depth >= DepthTol => ~LayerEmitted
        /\ config.cut_depth < DepthTol =>
              /\ LayerEmitted => depth_cut = <<config.cut_depth>>
              /\ Built => LayerEmitted
              /\ pc = "generate" => (ret = "built" /\ args.p.cut_z = config.cut_depth)

\* C28, amended: for cut_depth < 0 and step_down > 0 as stated; for
\* cut_depth >= 0.001 no layer is emitted; for 0 < cut_depth < 0.001 the loop
\* runs once and emits one layer, clamped to cut_z = cut_depth (above zero).
C28_DepthScheduleTol ==
    /\ []C28_Range
    /\ [][C28_Step]_vars
    /\ []C28_AboveZero

\* the second of three layers, a step_down below the first, is about to be cut
C28_Witness ==
    /\ entry = "process_svg"
    /\ pc = "generate"
    /\ ret = "depth"
    /\ config.cut_depth = -10000
    /\ config.step_down = 3333
    /\ depth_cut = <<-6666>>
    /\ args.p.cut_z = -6666

---------------------------------------------------------------------------
(* Claims about the moves of the 2-D strategies, checked under Spec        *)

\* C29: in every toolpath of the contour, perimeter and pocket strategies
\* every rapid move is at safe_z, every cut move is at cut_z, and the last
\* move is a rapid at safe_z: the toolpath leaves the tool retracted.
C29_HeightsAndRetract ==
    strategy \in {"contour", "perimeter", "pocket"} =>
        \A k \in 1..Len(toolpaths) :
            LET tp == toolpaths[k]
            IN  /\ tp # <<>>
                /\ \A i \in 1..Len(tp) :
                      tp[i].z = IF tp[i].rapid THEN params.safe_z ELSE params.cut_z
                /\ tp[Len(tp)].rapid
                /\ tp[Len(tp)].z = params.safe_z

\* the contour strategy has followed a closed and an open contour
C29_Witness ==
    /\ strategy = "contour"
    /\ contours = <<Square, OpenPath>>
    /\ Len(toolpaths) = 2
    /\ \A k \in 1..2 : Len(toolpaths[k]) >= 4

\* the area of the bounding rectangle of a contour (0 without points)
RectArea(poly) ==
    IF poly.points = <<>> THEN 0
    ELSE LET xs == {poly.points[i].x : i \in 1..Len(poly.points)}
             ys == {poly.points[i].y : i \in 1..Len(poly.points)}
         IN  (SetMax(xs) - SetMin(xs)) * (SetMax(ys) - SetMin(ys))

\* the positions of the contours of greatest bounding-rectangle area
Greatest ==
    {i \in 1..Len(contours) :
        \A j \in 1..Len(contours) : RectArea(contours[i]) >= RectArea(contours[j])}

\* C30: the perimeter strategy machines one contour only, one whose bounding
\* rectangle has the greatest area, whatever its position in the list: the
\* toolpaths are those it returns for that contour alone; when one contour is
\* strictly greatest, they are those of that contour, and no contours give no
\* toolpath.
C30_OnlyGreatestContour ==
    strategy = "perimeter" =>
        /\ contours = <<>> => toolpaths = <<>>
        /\ contours # <<>> =>
              \E i \in Greatest :
                  toolpaths = PerimeterStrategy_generate(<<contours[i]>>, params)
        /\ \A i \in Greatest : Greatest = {i} =>
              toolpaths = PerimeterStrategy_generate(<<contours[i]>>, params)

\* the greatest contour comes first in the list, and the toolpaths are its own
\* and not those of the smaller contour after it
C30_Witness ==
    /\ strategy = "perimeter"
    /\ contours = <<BigSquare, Square>>
    /\ Greatest = {1}
    /\ toolpaths # <<>>
    /\ toolpaths = PerimeterStrategy_generate(<<BigSquare>>, params)
    /\ toolpaths # PerimeterStrategy_generate(<<Square>>, params)

====
